---------------------------- MODULE Spec2Model ----------------------------
(***************************************************************************)
(* Quizly backend: the YouTube -> transcript -> LLM -> quiz pipeline of    *)
(* quiz_app/api/services.py and the store it writes (quiz_app/models.py).  *)
(*                                                                         *)
(* Text is modelled as a sequence of one-character strings (URLs) or of    *)
(* lexical atoms (LLM responses), so that searching, splitting, slicing    *)
(* and parsing are computed, not assumed.                                  *)
(***************************************************************************)
EXTENDS Integers, Sequences, FiniteSets, TLC

VARIABLES
  arg,        \* harness: the arguments of the function under check
  res,        \* harness: its outcome
  res2,       \* harness: the outcome of a second application
  phase,      \* harness: "start", then the position in the function under check
  llm_calls,  \* number of generate_content requests sent to the Gemini service
  settings,   \* django.conf.settings, as far as the pipeline reads it
  quizzes,    \* the rows of Quiz
  questions,  \* the rows of Question
  next_id,    \* the next primary key of each table
  files,      \* the files in QUIZ_TMP_DIR, by video id
  pc,         \* each invocation's position in create_quiz_from_youtube
  loc,        \* each invocation's arguments and local variables
  raised,     \* the exception each failed invocation propagated to its caller
  steps,      \* the external steps each invocation has attempted, in order
  now,        \* the clock that stamps created_at and updated_at
  outstanding, \* the refresh tokens issued so far
  blacklisted, \* the refresh tokens on the blacklist
  revoked,    \* the refresh tokens a logout answered 200 has carried
  users       \* the rows of User

\* the variables of the pipeline and of the store
pvars == <<settings, quizzes, questions, next_id, files, pc, loc, raised, steps,
           now, outstanding, blacklisted, revoked, users>>

vars == <<arg, res, res2, phase, llm_calls, pvars>>

(***************************************************************************)
(* Bounds of the model.                                                    *)
(***************************************************************************)
\* longest id segment appended to a URL form
MaxBodyLen == 12
\* largest stride used to vary the characters of an id segment
MaxStride == 2
\* largest num_questions the validator is called with, besides the default
MaxNumQuestions == 2
\* largest number of questions in an LLM response, and largest num_questions
\* the generator is called with
MaxGenQuestions == 2
\* number of concurrent invocations of the pipeline
NumProcs == 2
\* largest small duration and duration policy, in seconds
MaxDuration == 4

Procs == 1..NumProcs

\* outside the pipeline specification nothing runs and the store is empty
PipelineIdle ==
  /\ settings = <<>>
  /\ quizzes = {}
  /\ questions = {}
  /\ next_id = <<>>
  /\ files = {}
  /\ pc = <<>>
  /\ loc = <<>>
  /\ raised = <<>>
  /\ steps = <<>>
  /\ now = 0
  /\ outstanding = {}
  /\ blacklisted = {}
  /\ revoked = {}
  /\ users = {}

(***************************************************************************)
(* Outcomes: a returned value, or a raised exception with its message.     *)
(***************************************************************************)
Returned(v) == [exc |-> "none", msg |-> "", val |-> v]

Raised(kind, m) == [exc |-> kind, msg |-> m, val |-> <<>>]

NoOutcome == [exc |-> "unset", msg |-> "", val |-> <<>>]

(***************************************************************************)
(* Character-sequence helpers (str operations of Python).                  *)
(***************************************************************************)
\* t occurs in s at index i (1-based)
OccursAt(s, t, i) ==
  /\ i >= 1
  /\ i + Len(t) - 1 <= Len(s)
  /\ \A k \in 1..Len(t) : s[i + k - 1] = t[k]

\* Python: t in s
Contains(s, t) == \E i \in 1..(Len(s) + 1) : OccursAt(s, t, i)

(***************************************************************************)
(* URL Normalizer: extract_youtube_id and YOUTUBE_CANONICAL.               *)
(***************************************************************************)
\* the {11} of both regular expressions
IdLen == 11

\* the character class [A-Za-z0-9_-]
IdChars ==
  {"A", "B", "C", "D", "E", "F", "G", "H", "I", "J", "K", "L", "M",
   "N", "O", "P", "Q", "R", "S", "T", "U", "V", "W", "X", "Y", "Z",
   "a", "b", "c", "d", "e", "f", "g", "h", "i", "j", "k", "l", "m",
   "n", "o", "p", "q", "r", "s", "t", "u", "v", "w", "x", "y", "z",
   "0", "1", "2", "3", "4", "5", "6", "7", "8", "9", "_", "-"}

YOUTUBE_CANONICAL_PREFIX ==
  <<"h", "t", "t", "p", "s", ":", "/", "/", "w", "w", "w", ".", "y", "o",
    "u", "t", "u", "b", "e", ".", "c", "o", "m", "/", "w", "a", "t", "c",
    "h", "?", "v", "=">>

YOUTUBE_CANONICAL_alt(vid) ==
  <<"h", "t", "t", "p", "s", ":", "/", "/", "w", "w", "w", ".", "y", "o",
    "u", "t", "u", "b", "e", ".", "c", "o", "m", "/", "v", "/">> \o vid

\* YOUTUBE_CANONICAL.format(vid=vid)
YOUTUBE_CANONICAL(vid) == YOUTUBE_CANONICAL_PREFIX \o vid

TOK_youtube == <<"y", "o", "u", "t", "u", "b", "e">>

TOK_youtu_be == <<"y", "o", "u", "t", "u", ".", "b", "e">>

PAT_youtu_be_slash == <<"y", "o", "u", "t", "u", ".", "b", "e", "/">>

PAT_embed_slash == <<"e", "m", "b", "e", "d", "/">>

\* IdLen characters of the class [A-Za-z0-9_-] start at index i
IdAt(url, i) ==
  /\ i >= 1
  /\ i + IdLen - 1 <= Len(url)
  /\ \A k \in 0..(IdLen - 1) : url[i + k] \in IdChars

\* [?&]v=([A-Za-z0-9_-]{11}) matches at index i
QueryMatchAt(url, i) ==
  /\ i + 2 <= Len(url)
  /\ url[i] \in {"?", "&"}
  /\ url[i + 1] = "v"
  /\ url[i + 2] = "="
  /\ IdAt(url, i + 3)

\* (youtu\.be/|embed/)([A-Za-z0-9_-]{11}) matches at index i
PathMatchAt(url, i) ==
  \/ OccursAt(url, PAT_youtu_be_slash, i) /\ IdAt(url, i + Len(PAT_youtu_be_slash))
  \/ OccursAt(url, PAT_embed_slash, i) /\ IdAt(url, i + Len(PAT_embed_slash))

\* the length of group 1 of the second expression where it matches at i
PathGroup1Len(url, i) ==
  IF OccursAt(url, PAT_youtu_be_slash, i) /\ IdAt(url, i + Len(PAT_youtu_be_slash))
  THEN Len(PAT_youtu_be_slash)
  ELSE Len(PAT_embed_slash)

\* re.search(r"[?&]v=([A-Za-z0-9_-]{11})", url): the leftmost match, group(1)
SearchQuery(url) ==
  LET hits == {i \in 1..Len(url) : QueryMatchAt(url, i)}
  IN  IF hits = {} THEN Raised("NoMatch", "")
      ELSE LET i == CHOOSE j \in hits : \A h \in hits : j <= h
           IN  Returned(SubSeq(url, i + 3, i + 2 + IdLen))

SearchPath_group1(url) ==
  LET hits == {i \in 1..Len(url) : PathMatchAt(url, i)}
  IN  IF hits = {} THEN Raised("NoMatch", "")
      ELSE LET i == CHOOSE j \in hits : \A h \in hits : j <= h
           IN  Returned(SubSeq(url, i, i + PathGroup1Len(url, i) - 1))

\* re.search(r"(youtu\.be/|embed/)([A-Za-z0-9_-]{11})", url): leftmost, group(2)
SearchPath(url) ==
  LET hits == {i \in 1..Len(url) : PathMatchAt(url, i)}
  IN  IF hits = {} THEN Raised("NoMatch", "")
      ELSE LET i == CHOOSE j \in hits : \A h \in hits : j <= h
               g == PathGroup1Len(url, i)
           IN  Returned(SubSeq(url, i + g, i + g + IdLen - 1))

UnsupportedUrl_nohost(url) == url = <<>>

\* not url or 'youtube' not in url and 'youtu.be' not in url
UnsupportedUrl(url) ==
  \/ url = <<>>
  \/ (~Contains(url, TOK_youtube) /\ ~Contains(url, TOK_youtu_be))

extract_youtube_id(url) ==
  IF UnsupportedUrl(url) THEN Raised("ValueError", "Unsupported URL.")
  ELSE IF SearchQuery(url).exc = "none" THEN SearchQuery(url)
  ELSE IF SearchPath(url).exc = "none" THEN SearchPath(url)
  ELSE Raised("ValueError", "Could not extract YouTube video id.")

\* canonical_url = YOUTUBE_CANONICAL.format(vid=extract_youtube_id(url))
NormalizeUrl(url) ==
  LET r == extract_youtube_id(url)
  IN  IF r.exc = "none" THEN Returned(YOUTUBE_CANONICAL(r.val)) ELSE r

(***************************************************************************)
(* Inputs of the normalizer: a URL form, an id segment, a suffix.          *)
(***************************************************************************)
FormShort ==
  <<"h", "t", "t", "p", "s", ":", "/", "/", "y", "o", "u", "t", "u", ".",
    "b", "e", "/">>

FormEmbed ==
  <<"h", "t", "t", "p", "s", ":", "/", "/", "w", "w", "w", ".", "y", "o",
    "u", "t", "u", "b", "e", ".", "c", "o", "m", "/", "e", "m", "b", "e",
    "d", "/">>

FormAmp ==
  <<"h", "t", "t", "p", "s", ":", "/", "/", "w", "w", "w", ".", "y", "o",
    "u", "t", "u", "b", "e", ".", "c", "o", "m", "/", "w", "a", "t", "c",
    "h", "?", "t", "=", "1", "&", "v", "=">>

FormVimeo ==
  <<"h", "t", "t", "p", "s", ":", "/", "/", "v", "i", "m", "e", "o", ".",
    "c", "o", "m", "/", "w", "a", "t", "c", "h", "?", "v", "=">>

FormNoMarker ==
  <<"h", "t", "t", "p", "s", ":", "/", "/", "w", "w", "w", ".", "y", "o",
    "u", "t", "u", "b", "e", ".", "c", "o", "m", "/", "s", "h", "o", "r",
    "t", "s", "/">>

FormBare == <<"w", "a", "t", "c", "h", "?", "v", "=">>

SufTime == <<"&", "t", "=", "9">>

SufSlash == <<"/", "x">>

\* the id of Scenario A
ElevenAs == [i \in 1..IdLen |-> "A"]

\* the three supported forms of the docstring of extract_youtube_id
SupportedForms == {YOUTUBE_CANONICAL_PREFIX, FormShort, FormEmbed}

Forms == SupportedForms \cup {FormAmp, FormVimeo, FormNoMarker, FormBare, <<>>}

Suffixes == {<<>>, SufTime, SufSlash}

BodyAlphabet == <<"A", "z", "0", "_", "-", "!">>

\* an id segment of n characters, its characters varied by offset a and stride b
Body(a, b, n) ==
  [i \in 1..n |-> BodyAlphabet[((a + b * i) % Len(BodyAlphabet)) + 1]]

Bodies ==
  {Body(a, b, n) : a \in 0..(Len(BodyAlphabet) - 1), b \in 0..MaxStride,
                   n \in 0..MaxBodyLen}

NormInputs ==
  {[form |-> f, body |-> b, suffix |-> s, url |-> f \o b \o s] :
     f \in Forms, b \in Bodies, s \in Suffixes}

(***************************************************************************)
(* Specification of the normalizer: normalize, then normalize the result.  *)
(***************************************************************************)
NormInit ==
  /\ arg \in NormInputs
  /\ res = NoOutcome
  /\ res2 = NoOutcome
  /\ phase = "start"
  /\ llm_calls = 0
  /\ PipelineIdle

Normalize ==
  /\ phase = "start"
  /\ res' = NormalizeUrl(arg.url)
  /\ phase' = "once"
  /\ UNCHANGED <<arg, res2, llm_calls>>
  /\ UNCHANGED pvars

Renormalize ==
  /\ phase = "once"
  /\ res.exc = "none"
  /\ res2' = NormalizeUrl(res.val)
  /\ phase' = "twice"
  /\ UNCHANGED <<arg, res, llm_calls>>
  /\ UNCHANGED pvars

NormNext == Normalize \/ Renormalize

SpecNorm == NormInit /\ [][NormNext]_vars

(***************************************************************************)
(* Availability Checker: ensure_video_available.                           *)
(***************************************************************************)
\* an int | None
None == [some |-> FALSE, v |-> 0]

Some(k) == [some |-> TRUE, v |-> k]

\* bool(x), for an int | None
Truthy(x) == x.some /\ x.v # 0

\* what ydl.extract_info does: raise one of the two provider errors, or return
\* an info dict whose 'duration' may be missing
ProviderInfo(duration) == [error |-> "none", duration |-> duration]

ProviderError(kind) == [error |-> kind, duration |-> None]

ensure_video_available(provider, max_duration_sec) ==
  IF provider.error \in {"DownloadError", "ExtractorError"}
  THEN Raised("ValueError", "YouTube video unavailable or invalid.")
  ELSE IF /\ Truthy(max_duration_sec)
          /\ Truthy(provider.duration)
          /\ provider.duration.v > max_duration_sec.v
  THEN Raised("ValueError", "Video too long.")
  ELSE Returned(provider)

(***************************************************************************)
(* Inputs and specification of the availability checker.                   *)
(***************************************************************************)
Durations == {None} \cup {Some(k) : k \in (0..MaxDuration) \cup {1800, 1801, 9000}}

Policies == {None} \cup {Some(k) : k \in (0..MaxDuration) \cup {1800}}

Providers ==
  {ProviderInfo(d) : d \in Durations}
  \cup {ProviderError("DownloadError"), ProviderError("ExtractorError")}

AvailInit ==
  /\ arg \in {[provider |-> v, max_duration_sec |-> m] : v \in Providers, m \in Policies}
  /\ res = NoOutcome
  /\ res2 = NoOutcome
  /\ phase = "start"
  /\ llm_calls = 0
  /\ PipelineIdle

CheckAvailability ==
  /\ phase = "start"
  /\ res' = ensure_video_available(arg.provider, arg.max_duration_sec)
  /\ phase' = "once"
  /\ UNCHANGED <<arg, res2, llm_calls>>
  /\ UNCHANGED pvars

AvailNext == CheckAvailability

SpecAvail == AvailInit /\ [][AvailNext]_vars

(***************************************************************************)
(* Parsed JSON values (what json.loads returns), one record shape for all: *)
(* t is the Python type; s the atoms of a str; n the value of an int or    *)
(* bool; items the members of a list or the values of a dict; keys the     *)
(* keys of a dict, in insertion order.                                     *)
(***************************************************************************)
JStr(atoms) == [t |-> "str", s |-> atoms, n |-> 0, items |-> <<>>, keys |-> <<>>]

JNum(k) == [t |-> "int", s |-> <<>>, n |-> k, items |-> <<>>, keys |-> <<>>]

JBool(b) ==
  [t |-> "bool", s |-> <<>>, n |-> IF b THEN 1 ELSE 0, items |-> <<>>, keys |-> <<>>]

JNull == [t |-> "NoneType", s |-> <<>>, n |-> 0, items |-> <<>>, keys |-> <<>>]

JList(vs) == [t |-> "list", s |-> <<>>, n |-> 0, items |-> vs, keys |-> <<>>]

JObj(ks, vs) == [t |-> "dict", s |-> <<>>, n |-> 0, items |-> vs, keys |-> ks]

\* a str of one atom
W(a) == JStr(<<a>>)

\* Python ==: bool is an int (True == 1); otherwise same type and same content
PyEq(a, b) ==
  IF a.t \in {"int", "bool"} /\ b.t \in {"int", "bool"} THEN a.n = b.n ELSE a = b

\* hash(v) raises TypeError for a list and a dict
Unhashable(v) == v.t \in {"list", "dict"}

\* k in d, for a dict d
HasKey(d, k) == \E i \in 1..Len(d.keys) : d.keys[i] = <<k>>

\* d[k], for a dict d that has k
Item(d, k) == d.items[CHOOSE i \in 1..Len(d.keys) : d.keys[i] = <<k>>]

\* x in seq, for a list
InList(x, vs) == \E i \in 1..Len(vs) : PyEq(vs[i], x)

\* len(set(opts)), for hashable members
DistinctCount(vs) ==
  Cardinality({i \in 1..Len(vs) : \A j \in 1..(i - 1) : ~PyEq(vs[j], vs[i])})

(***************************************************************************)
(* Quiz Validator: validate_quiz_dict.                                     *)
(***************************************************************************)
QuestionKeys == <<"question_title", "question_options", "answer">>

\* `k in q` of the generator in all(...): "yes", "no", or the TypeError of a
\* value that is not a container
KeyIn(q, k) ==
  CASE q.t = "dict" -> IF HasKey(q, k) THEN "yes" ELSE "no"
    [] q.t = "str"  -> IF Contains(q.s, <<k>>) THEN "yes" ELSE "no"
    [] q.t = "list" -> IF InList(W(k), q.items) THEN "yes" ELSE "no"
    [] OTHER        -> "TypeError"

\* all(k in q for k in (...)): the keys are tried in order, up to the first
\* that is absent
AllKeysIn(q) ==
  LET r == [i \in 1..Len(QuestionKeys) |-> KeyIn(q, QuestionKeys[i])]
  IN  IF r[1] # "yes" THEN r[1]
      ELSE IF r[2] # "yes" THEN r[2]
      ELSE r[3]

\* not (not isinstance(opts, list) or len(opts) != 4 or len(set(opts)) != 4),
\* for members that can be hashed
OptionsOk(opts) ==
  /\ opts.t = "list"
  /\ Len(opts.items) = 4
  /\ DistinctCount(opts.items) = 4

\* q['answer'] in opts
AnswerOk(q, opts) == InList(Item(q, "answer"), opts.items)

\* the body of `for q in qs`, for one q
CheckQuestion(q) ==
  IF AllKeysIn(q) = "TypeError"
  THEN Raised("TypeError", "argument of type '" \o q.t \o "' is not iterable")
  ELSE IF AllKeysIn(q) = "no"
  THEN Raised("ValueError",
              "Each question must have question_title, question_options, answer.")
  ELSE IF q.t # "dict"
  THEN Raised("TypeError", q.t \o " indices must be integers")
  ELSE LET opts == Item(q, "question_options")
       IN  IF opts.t = "list" /\ Len(opts.items) = 4
              /\ \E i \in 1..4 : Unhashable(opts.items[i])
           THEN Raised("TypeError", "unhashable type")
           ELSE IF ~OptionsOk(opts)
           THEN Raised("ValueError", "Each question must have exactly 4 distinct options.")
           ELSE IF ~AnswerOk(q, opts)
           THEN Raised("ValueError", "Answer must be one of question_options.")
           ELSE Returned(<<>>)

\* not (not isinstance(qs, list) or len(qs) != num_questions)
QuestionCountOk(qs, num_questions) ==
  qs.t = "list" /\ Len(qs.items) = num_questions

validate_quiz_dict(d, num_questions) ==
  IF d.t # "dict" THEN Raised("ValueError", "Quiz must be a JSON object.")
  ELSE IF ~HasKey(d, "title") \/ ~HasKey(d, "description") \/ ~HasKey(d, "questions")
  THEN Raised("ValueError", "Quiz JSON must contain title, description, questions.")
  ELSE LET qs == Item(d, "questions")
       IN  IF ~QuestionCountOk(qs, num_questions)
           THEN Raised("ValueError",
                       "Quiz must contain exactly " \o ToString(num_questions)
                         \o " questions.")
           ELSE LET bad == {i \in 1..Len(qs.items) :
                              CheckQuestion(qs.items[i]).exc # "none"}
                IN  IF bad = {} THEN Returned(<<>>)
                    ELSE CheckQuestion(
                           qs.items[CHOOSE i \in bad : \A j \in bad : i <= j])

(***************************************************************************)
(* LLM response text: a sequence of atoms.  An atom is one punctuation or  *)
(* white-space character, or a run of letters and digits that the code     *)
(* never looks inside ("title", "json", "1").  LS stands for U+2028, a     *)
(* line boundary of str.splitlines that JSON allows inside a string; BQ    *)
(* stands for one backquote.                                               *)
(***************************************************************************)
Quote == "\""

LS == "LS"

\* what str.strip() removes
PyWhitespace == {" ", "\n", "\t", LS}

\* what json.loads skips between tokens
JsonWhitespace == {" ", "\n", "\t"}

\* what json.loads refuses inside a string (strict mode)
JsonControl == {"\n", "\t"}

\* the line boundaries of str.splitlines
LineBreaks == {"\n", LS}

\* the atom of one backquote character
Backquote == "BQ"

Fence == <<Backquote, Backquote, Backquote>>

\* the smallest member of a non-empty set of integers
Least(S) == CHOOSE i \in S : \A j \in S : i <= j

Greatest(S) == CHOOSE i \in S : \A j \in S : i >= j

\* str.strip()
Strip(s) ==
  LET keep == {i \in 1..Len(s) : s[i] \notin PyWhitespace}
  IN  IF keep = {} THEN <<>> ELSE SubSeq(s, Least(keep), Greatest(keep))

\* s.find(sub): 0-based index of the leftmost occurrence, or -1
Find(s, sub) ==
  LET hits == {i \in 1..Len(s) : OccursAt(s, sub, i)}
  IN  IF hits = {} THEN -1 ELSE Least(hits) - 1

\* s.rfind(sub)
RFind(s, sub) ==
  LET hits == {i \in 1..Len(s) : OccursAt(s, sub, i)}
  IN  IF hits = {} THEN -1 ELSE Greatest(hits) - 1

\* s[a:b], with Python's treatment of negative and out-of-range indices
PySlice(s, a, b) ==
  LET n  == Len(s)
      a1 == IF a < 0 THEN (IF a + n < 0 THEN 0 ELSE a + n) ELSE (IF a > n THEN n ELSE a)
      b1 == IF b < 0 THEN (IF b + n < 0 THEN 0 ELSE b + n) ELSE (IF b > n THEN n ELSE b)
  IN  SubSeq(s, a1 + 1, b1)

SplitSecond_zero(s, sep) == SubSeq(s, 1, Find(s, sep))

\* s.split(sep)[1], for s that holds sep
SplitSecond(s, sep) ==
  LET i == Find(s, sep) IN
  LET rest == SubSeq(s, i + 1 + Len(sep), Len(s))
      j == Find(rest, sep)
  IN  IF j = -1 THEN rest ELSE SubSeq(rest, 1, j)

\* s.splitlines(): no empty last line after a final line boundary
RECURSIVE SplitLines(_)
SplitLines(s) ==
  IF s = <<>> THEN <<>>
  ELSE LET brk == {i \in 1..Len(s) : s[i] \in LineBreaks}
       IN  IF brk = {} THEN <<s>>
           ELSE <<SubSeq(s, 1, Least(brk) - 1)>>
                  \o SplitLines(SubSeq(s, Least(brk) + 1, Len(s)))

\* "\n".join(lines)
RECURSIVE JoinLines(_)
JoinLines(lines) ==
  IF lines = <<>> THEN <<>>
  ELSE IF Len(lines) = 1 THEN lines[1]
  ELSE lines[1] \o <<"\n">> \o JoinLines(Tail(lines))

\* l.strip().lower() == 'json'
IsTagLine(l) ==
  LET t == Strip(l) IN Len(t) = 1 /\ t[1] \in {"json", "JSON", "Json"}

\* [l for l in lines if l.strip().lower() != 'json']
DropTagLines(lines) == SelectSeq(lines, LAMBDA l : ~IsTagLine(l))

(***************************************************************************)
(* json.loads on atoms: objects, arrays, strings without escapes, small    *)
(* integers, true, false and null.                                         *)
(***************************************************************************)
NumAtoms == {"0", "1", "2", "3", "4", "5", "6", "7", "8", "9"}

AtomToInt(a) ==
  CASE a = "0" -> 0 [] a = "1" -> 1 [] a = "2" -> 2 [] a = "3" -> 3 [] a = "4" -> 4
    [] a = "5" -> 5 [] a = "6" -> 6 [] a = "7" -> 7 [] a = "8" -> 8 [] OTHER -> 9

ParseFail == [ok |-> FALSE, val |-> JNull, pos |-> 0]

Parsed(v, p) == [ok |-> TRUE, val |-> v, pos |-> p]

\* the first index from i on that holds no JSON white space (Len(s) + 1: none)
SkipWs(s, i) ==
  Least({j \in i..(Len(s) + 1) : j = Len(s) + 1 \/ s[j] \notin JsonWhitespace})

\* a string that opens at index i
ParseString(s, i) ==
  LET closers == {j \in (i + 1)..Len(s) : s[j] = Quote}
  IN  IF closers = {} THEN ParseFail
      ELSE LET j == Least(closers)
           IN  IF \E k \in (i + 1)..(j - 1) : s[k] \in JsonControl THEN ParseFail
               ELSE Parsed(JStr(SubSeq(s, i + 1, j - 1)), j + 1)

\* d[k] = v: a repeated key keeps its place and takes the last value
PutMember(d, k, v) ==
  IF \E i \in 1..Len(d.keys) : d.keys[i] = k
  THEN LET i == CHOOSE x \in 1..Len(d.keys) : d.keys[x] = k
       IN  JObj(d.keys, [d.items EXCEPT ![i] = v])
  ELSE JObj(Append(d.keys, k), Append(d.items, v))

RECURSIVE ParseValue(_, _)
RECURSIVE ParseElements(_, _, _)
RECURSIVE ParseMembers(_, _, _)

\* the elements of an array, the first starting at i, up to its "]"
ParseElements(s, i, acc) ==
  LET v == ParseValue(s, i) IN
  IF ~v.ok THEN ParseFail
  ELSE LET j == SkipWs(s, v.pos)
       IN  IF j > Len(s) THEN ParseFail
           ELSE IF s[j] = "," THEN ParseElements(s, j + 1, Append(acc, v.val))
           ELSE IF s[j] = "]" THEN Parsed(JList(Append(acc, v.val)), j + 1)
           ELSE ParseFail

\* the members of an object, the first key starting at or after i, up to its "}"
ParseMembers(s, i, acc) ==
  LET i1 == SkipWs(s, i) IN
  IF i1 > Len(s) \/ s[i1] # Quote THEN ParseFail
  ELSE LET k == ParseString(s, i1) IN
       IF ~k.ok THEN ParseFail
       ELSE LET j == SkipWs(s, k.pos) IN
            IF j > Len(s) \/ s[j] # ":" THEN ParseFail
            ELSE LET v == ParseValue(s, j + 1) IN
                 IF ~v.ok THEN ParseFail
                 ELSE LET e == SkipWs(s, v.pos)
                          d == PutMember(acc, k.val.s, v.val)
                      IN  IF e > Len(s) THEN ParseFail
                          ELSE IF s[e] = "," THEN ParseMembers(s, e + 1, d)
                          ELSE IF s[e] = "}" THEN Parsed(d, e + 1)
                          ELSE ParseFail

\* one JSON value starting at or after i
ParseValue(s, i0) ==
  LET i == SkipWs(s, i0) IN
  IF i > Len(s) THEN ParseFail
  ELSE IF s[i] = Quote THEN ParseString(s, i)
  ELSE IF s[i] = "{"
  THEN LET j == SkipWs(s, i + 1)
       IN  IF j <= Len(s) /\ s[j] = "}" THEN Parsed(JObj(<<>>, <<>>), j + 1)
           ELSE ParseMembers(s, j, JObj(<<>>, <<>>))
  ELSE IF s[i] = "["
  THEN LET j == SkipWs(s, i + 1)
       IN  IF j <= Len(s) /\ s[j] = "]" THEN Parsed(JList(<<>>), j + 1)
           ELSE ParseElements(s, j, <<>>)
  ELSE IF s[i] = "null" THEN Parsed(JNull, i + 1)
  ELSE IF s[i] = "true" THEN Parsed(JBool(TRUE), i + 1)
  ELSE IF s[i] = "false" THEN Parsed(JBool(FALSE), i + 1)
  ELSE IF s[i] \in NumAtoms THEN Parsed(JNum(AtomToInt(s[i])), i + 1)
  ELSE ParseFail

\* json.loads(s): one value and nothing but white space after it;
\* json.JSONDecodeError is a subclass of ValueError
json_loads(s) ==
  LET v == ParseValue(s, 1)
  IN  IF v.ok /\ SkipWs(s, v.pos) = Len(s) + 1 THEN Returned(v.val)
      ELSE Raised("JSONDecodeError", "Expecting value")

\* isinstance(e, ValueError), for the exception classes of the model
IsValueError(exc) == exc \in {"ValueError", "JSONDecodeError"}

(***************************************************************************)
(* Quiz Generator: the text handling of generate_quiz_with_gemini.         *)
(***************************************************************************)
\* if "```" in json_str: split("```")[1], then drop the bare tag lines
UnwrapFence(json_str) ==
  IF Contains(json_str, Fence)
  THEN JoinLines(DropTagLines(SplitLines(SplitSecond(json_str, Fence))))
  ELSE json_str

\* json_str.strip().startswith('{')
StartsWithBrace(json_str) ==
  LET t == Strip(json_str) IN t # <<>> /\ t[1] = "{"

\* variant: the slice ends at the first '}'
BraceSlice_firstClose(json_str) ==
  IF ~StartsWithBrace(json_str)
  THEN PySlice(json_str, Find(json_str, <<"{">>), Find(json_str, <<"}">>) + 1)
  ELSE json_str

\* if not json_str.strip().startswith('{'): json_str[s:e+1]
BraceSlice(json_str) ==
  IF ~StartsWithBrace(json_str)
  THEN PySlice(json_str, Find(json_str, <<"{">>), RFind(json_str, <<"}">>) + 1)
  ELSE json_str

\* lines 207-220: strip, unwrap, slice, json.loads, validate_quiz_dict, return data
ParseResponse(text, num_questions) ==
  LET d == json_loads(BraceSlice(UnwrapFence(Strip(text))))
  IN  IF d.exc # "none" THEN d
      ELSE LET v == validate_quiz_dict(d.val, num_questions)
           IN  IF v.exc # "none" THEN v ELSE d

(***************************************************************************)
(* Inputs of the validator: payloads that are well formed but for at most  *)
(* one entry of `questions`, or but for their top level.                   *)
(***************************************************************************)
\* num_questions: int = 10
DefaultNumQuestions == 10

Question(title, opts, answer) ==
  JObj(<< <<"question_title">>, <<"question_options">>, <<"answer">> >>,
       <<title, opts, answer>>)

OptABCD == JList(<<W("A"), W("B"), W("C"), W("D")>>)

ValidEntries == <<Question(W("q1"), OptABCD, W("A")), Question(W("q2"), OptABCD, W("D"))>>

QEntries ==
  { ValidEntries[1],
    \* answer "E" with options A, B, C, D
    Question(W("q"), OptABCD, W("E")),
    \* three, five, repeated options
    Question(W("q"), JList(<<W("A"), W("B"), W("C")>>), W("A")),
    Question(W("q"), JList(<<W("A"), W("B"), W("C"), W("D"), W("E")>>), W("A")),
    Question(W("q"), JList(<<W("A"), W("A"), W("C"), W("D")>>), W("A")),
    \* options that are not a list
    Question(W("q"), JStr(<<"A", "B", "C", "D">>), W("A")),
    Question(W("q"), JNull, W("A")),
    \* a key missing
    JObj(<< <<"question_options">>, <<"answer">> >>, <<OptABCD, W("A")>>),
    JObj(<< <<"question_title">>, <<"answer">> >>, <<W("q"), W("A")>>),
    JObj(<< <<"question_title">>, <<"question_options">> >>, <<W("q"), OptABCD>>),
    \* a key more
    JObj(<< <<"question_title">>, <<"question_options">>, <<"answer">>, <<"hint">> >>,
         <<W("q"), OptABCD, W("B"), W("h")>>),
    \* entries that are not objects
    JNum(5),
    JNull,
    JBool(TRUE),
    JStr(<<"question_title", " ", "question_options", " ", "answer">>),
    W("q"),
    JList(<<W("question_title"), W("question_options"), W("answer")>>),
    JList(<<>>),
    \* options whose members are lists or objects
    Question(W("q"), JList(<<JList(<<W("A")>>), JList(<<W("B")>>), JList(<<W("C")>>),
                             JList(<<W("D")>>)>>), JList(<<W("A")>>)),
    Question(W("q"), JList(<<W("A"), W("B"), W("C"), JObj(<<>>, <<>>)>>), W("A")),
    \* options and answers that are not strings
    Question(W("q"), JList(<<JNum(1), JNum(2), JNum(3), JNum(4)>>), JNum(1)),
    Question(W("q"), JList(<<JNum(1), JNum(2), JNum(3), JNum(4)>>), JBool(TRUE)),
    Question(W("q"), JList(<<JNum(1), JBool(TRUE), W("A"), W("B")>>), W("A")),
    Question(JNull, OptABCD, W("A")),
    Question(W("q"), JList(<<W("A"), W("B"), W("C"), JNull>>), JNull) }

\* L entries, valid ones chosen by v, but for entry e at position p (p = 0: none)
QuestionList(L, v, p, e) ==
  [i \in 1..L |-> IF i = p THEN e ELSE ValidEntries[((v + i) % 2) + 1]]

QuestionLists ==
  {QuestionList(L, v, p, e) :
     L \in (0..(MaxNumQuestions + 1)) \cup {DefaultNumQuestions - 1, DefaultNumQuestions},
     v \in 0..1, p \in 0..(MaxNumQuestions + 1), e \in QEntries}

Payload(title, description, qs) ==
  JObj(<< <<"title">>, <<"description">>, <<"questions">> >>, <<title, description, qs>>)

TwoValid == JList(QuestionList(2, 0, 0, JNull))

Payloads ==
  {Payload(W("t"), W("d"), JList(qs)) : qs \in QuestionLists}
  \cup
  { \* a top-level key missing
    JObj(<< <<"description">>, <<"questions">> >>, <<W("d"), TwoValid>>),
    JObj(<< <<"title">>, <<"questions">> >>, <<W("t"), TwoValid>>),
    JObj(<< <<"title">>, <<"description">> >>, <<W("t"), W("d")>>),
    JObj(<<>>, <<>>),
    \* a top level that is not an object
    TwoValid, W("t"), JNull, JNum(1),
    \* questions that is not a list
    Payload(W("t"), W("d"), ValidEntries[1]),
    Payload(W("t"), W("d"), W("q")),
    Payload(W("t"), W("d"), JNull),
    \* title and description of other types
    Payload(JNull, W("d"), TwoValid),
    Payload(W("t"), JNull, TwoValid),
    Payload(JNum(7), JList(<<>>), TwoValid) }

ValInputs ==
  {[d |-> d, n |-> n] :
     d \in Payloads, n \in (1..MaxNumQuestions) \cup {DefaultNumQuestions}}

(***************************************************************************)
(* Specification of the validator.                                         *)
(***************************************************************************)
ValInit ==
  /\ arg \in ValInputs
  /\ res = NoOutcome
  /\ res2 = NoOutcome
  /\ phase = "start"
  /\ llm_calls = 0
  /\ PipelineIdle

Validate ==
  /\ phase = "start"
  /\ res' = validate_quiz_dict(arg.d, arg.n)
  /\ phase' = "once"
  /\ UNCHANGED <<arg, res2, llm_calls>>
  /\ UNCHANGED pvars

ValNext == Validate

SpecVal == ValInit /\ [][ValNext]_vars

(***************************************************************************)
(* Quiz Generator: generate_quiz_with_gemini, in the steps between which   *)
(* it talks to the Gemini service.                                         *)
(***************************************************************************)
ApiKeyMissing_never(api_key) == FALSE

\* not api_key
ApiKeyMissing(api_key) == ~api_key

(***************************************************************************)
(* Inputs of the generator: the response texts an LLM may send.            *)
(***************************************************************************)
IntToAtom(k) ==
  CASE k = 0 -> "0" [] k = 1 -> "1" [] k = 2 -> "2" [] k = 3 -> "3" [] k = 4 -> "4"
    [] k = 5 -> "5" [] k = 6 -> "6" [] k = 7 -> "7" [] k = 8 -> "8" [] OTHER -> "9"

\* the JSON text of a value, compact or with a line per member
RECURSIVE Dump(_, _)
RECURSIVE DumpSeq(_, _, _, _)
DumpSeq(ks, vs, i, pretty) ==
  IF i > Len(vs) THEN <<>>
  ELSE (IF pretty THEN <<"\n", " ">> ELSE <<>>)
       \o (IF ks = <<>> THEN <<>>
           ELSE <<Quote>> \o ks[i] \o <<Quote, ":">> \o (IF pretty THEN <<" ">> ELSE <<>>))
       \o Dump(vs[i], pretty)
       \o (IF i < Len(vs) THEN <<",">> ELSE IF pretty THEN <<"\n">> ELSE <<>>)
       \o DumpSeq(ks, vs, i + 1, pretty)

Dump(v, pretty) ==
  CASE v.t = "str"      -> <<Quote>> \o v.s \o <<Quote>>
    [] v.t = "int"      -> <<IntToAtom(v.n)>>
    [] v.t = "bool"     -> IF v.n = 1 THEN <<"true">> ELSE <<"false">>
    [] v.t = "NoneType" -> <<"null">>
    [] v.t = "list"     -> <<"[">> \o DumpSeq(<<>>, v.items, 1, pretty) \o <<"]">>
    [] OTHER            -> <<"{">> \o DumpSeq(v.keys, v.items, 1, pretty) \o <<"}">>

GenTitles ==
  { W("t"),
    \* a fence marker, a backquote, a line boundary, braces inside a string
    JStr(<<"use", " ", Backquote, Backquote, Backquote, " ", "here">>),
    JStr(<<"a", Backquote, "b">>),
    JStr(<<"a", LS, "b">>),
    JStr(<<"{", "json", "}">>) }

GenQuestions ==
  { <<ValidEntries[1]>>,
    <<ValidEntries[2], ValidEntries[1]>>,
    <<Question(W("q"), OptABCD, W("E"))>>,
    <<Question(JStr(<<"what", " ", "is", " ", Backquote, Backquote, Backquote>>),
               OptABCD, W("C"))>>,
    <<Question(JNull, JList(<<JNum(1), JNum(2), JNum(3), JNum(4)>>), JNum(1))>> }

GenPayloads ==
  {Payload(t, W("d"), JList([i \in 1..k |-> qs[((i - 1) % Len(qs)) + 1]])) :
     t \in GenTitles, qs \in GenQuestions, k \in 1..MaxGenQuestions}

TagLine(tag) == Fence \o <<tag, "\n">>

Wrappers ==
  {"bare", "padded", "fenced_json", "fenced_JSON", "prose_fenced_json", "fenced",
   "inline_tag", "unclosed", "prose", "truncated", "no_braces"}

\* the wrappers that are a pair of fence markers with a leading json tag line
TagFenced == {"fenced_json", "fenced_JSON", "prose_fenced_json"}

Wrap(w, j) ==
  CASE w = "bare"              -> j
    [] w = "padded"            -> <<" ", "\n">> \o j \o <<"\n", LS>>
    [] w = "fenced_json"       -> TagLine("json") \o j \o <<"\n">> \o Fence
    [] w = "fenced_JSON"       -> TagLine("JSON") \o j \o <<"\n">> \o Fence \o <<"\n">>
    [] w = "prose_fenced_json" -> <<"Here", ":", "\n">> \o TagLine("json") \o j
                                    \o <<"\n">> \o Fence \o <<"\n", "Enjoy", "}">>
    [] w = "fenced"            -> Fence \o <<"\n">> \o j \o <<"\n">> \o Fence
    [] w = "inline_tag"        -> Fence \o <<"json", " ">> \o j \o Fence
    [] w = "unclosed"          -> TagLine("json") \o j
    [] w = "prose"             -> <<"Here", ":", " ">> \o j \o <<" ", "Enjoy">>
    [] w = "truncated"         -> SubSeq(j, 1, Len(j) - 1)
    [] OTHER                   -> <<"Sorry", ",", " ", "no", " ", "quiz">>

GenInputs ==
  {[api_key |-> k, llm_fails |-> f, payload |-> d, json |-> Dump(d, pretty),
    wrapper |-> w, text |-> Wrap(w, Dump(d, pretty)), n |-> n] :
     k \in BOOLEAN, f \in BOOLEAN, d \in GenPayloads, pretty \in BOOLEAN,
     w \in Wrappers, n \in 1..MaxGenQuestions}

(***************************************************************************)
(* Specification of the generator.                                         *)
(***************************************************************************)
GenInit ==
  /\ arg \in GenInputs
  /\ res = NoOutcome
  /\ res2 = NoOutcome
  /\ phase = "start"
  /\ llm_calls = 0
  /\ PipelineIdle

\* lines 196-199: read the key, fail without one, build the client
GenCheckKey ==
  /\ phase = "start"
  /\ IF ApiKeyMissing(arg.api_key)
     THEN /\ res' = Raised("ValueError", "GEMINI_API_KEY is not configured.")
          /\ phase' = "once"
     ELSE /\ res' = res
          /\ phase' = "call"
  /\ UNCHANGED <<arg, res2, llm_calls>>
  /\ UNCHANGED pvars

\* lines 200-203: client.models.generate_content, any exception wrapped
GenCall ==
  /\ phase = "call"
  /\ llm_calls' = llm_calls + 1
  /\ IF arg.llm_fails
     THEN /\ res' = Raised("ValueError", "Gemini request failed")
          /\ phase' = "once"
     ELSE /\ res' = res
          /\ phase' = "parse"
  /\ UNCHANGED <<arg, res2>>
  /\ UNCHANGED pvars

\* lines 205-220: unwrap, parse and validate the response text
GenParse ==
  /\ phase = "parse"
  /\ res' = ParseResponse(arg.text, arg.n)
  /\ phase' = "once"
  /\ UNCHANGED <<arg, res2, llm_calls>>
  /\ UNCHANGED pvars

GenNext == GenCheckKey \/ GenCall \/ GenParse

SpecGen == GenInit /\ [][GenNext]_vars

(***************************************************************************)
(* The store: what the model fields keep of a value (models.py).           *)
(***************************************************************************)
\* repr(v), on atoms
RECURSIVE PyRepr(_)
RECURSIVE PyReprSeq(_, _, _)
PyReprSeq(ks, vs, i) ==
  IF i > Len(vs) THEN <<>>
  ELSE (IF ks = <<>> THEN <<>> ELSE <<"'">> \o ks[i] \o <<"'", ":", " ">>)
       \o PyRepr(vs[i])
       \o (IF i < Len(vs) THEN <<",", " ">> ELSE <<>>)
       \o PyReprSeq(ks, vs, i + 1)

PyRepr(v) ==
  CASE v.t = "str"      -> <<"'">> \o v.s \o <<"'">>
    [] v.t = "int"      -> <<IntToAtom(v.n)>>
    [] v.t = "bool"     -> IF v.n = 1 THEN <<"True">> ELSE <<"False">>
    [] v.t = "NoneType" -> <<"None">>
    [] v.t = "list"     -> <<"[">> \o PyReprSeq(<<>>, v.items, 1) \o <<"]">>
    [] OTHER            -> <<"{">> \o PyReprSeq(v.keys, v.items, 1) \o <<"}">>

\* CharField / TextField: a str is kept, None is NULL, anything else is str(v)
CharValue(v) == IF v.t \in {"str", "NoneType"} THEN v ELSE JStr(PyRepr(v))

\* a NOT NULL column refuses None: IntegrityError
IsNull(v) == v.t = "NoneType"

QuizRow(id, owner, title, description, video_url, created_at) ==
  [id |-> id, owner |-> owner, title |-> title, description |-> description,
   video_url |-> video_url, created_at |-> created_at, updated_at |-> created_at]

QuestionRow(id, quiz, question_title, question_options, answer) ==
  [id |-> id, quiz |-> quiz, question_title |-> question_title,
   question_options |-> question_options, answer |-> answer]

\* quiz.questions.all()
QuestionsOf(quiz_id) == {q \in questions : q.quiz = quiz_id}

\* the rows of a set as the store returns them, by ascending primary key
RECURSIVE ById(_)
ById(rows) ==
  IF rows = {} THEN <<>>
  ELSE LET first == CHOOSE r \in rows : \A o \in rows : r.id <= o.id
       IN  <<first>> \o ById(rows \ {first})

\* the questions of a quiz as QuizSerializer reads them
RetrievedQuestions(quiz_id) == ById(QuestionsOf(quiz_id))

\* Quiz.objects.create(owner, title, description, video_url): the row, or the
\* IntegrityError of a NULL title or description
NewQuiz(id, owner, quiz_dict, canonical_url, at) ==
  LET title == CharValue(Item(quiz_dict, "title"))
      description == CharValue(Item(quiz_dict, "description"))
  IN  IF IsNull(title) \/ IsNull(description)
      THEN Raised("IntegrityError", "NOT NULL constraint failed")
      ELSE Returned(QuizRow(id, owner, title.s, description.s, canonical_url, at))

\* variant: the last question of the quiz dict is not written
NewQuestionRows_dropsLast(first_id, quiz_id, quiz_dict) ==
  LET qs == Item(quiz_dict, "questions").items
      row(i) == QuestionRow(first_id + i - 1, quiz_id,
                            CharValue(Item(qs[i], "question_title")),
                            Item(qs[i], "question_options"),
                            CharValue(Item(qs[i], "answer")))
  IN  IF \E i \in 1..Len(qs) : IsNull(row(i).question_title) \/ IsNull(row(i).answer)
      THEN Raised("IntegrityError", "NOT NULL constraint failed")
      ELSE Returned({[row(i) EXCEPT !.question_title = @.s, !.answer = @.s] :
                       i \in 1..(Len(qs) - 1)})

\* Question.objects.bulk_create of one Question per entry of
\* quiz_dict['questions']: all the rows, or the IntegrityError of a NULL
\* question_title or answer
NewQuestionRows(first_id, quiz_id, quiz_dict) ==
  LET qs == Item(quiz_dict, "questions").items
      row(i) == QuestionRow(first_id + i - 1, quiz_id,
                            CharValue(Item(qs[i], "question_title")),
                            Item(qs[i], "question_options"),
                            CharValue(Item(qs[i], "answer")))
  IN  IF \E i \in 1..Len(qs) : IsNull(row(i).question_title) \/ IsNull(row(i).answer)
      THEN Raised("IntegrityError", "NOT NULL constraint failed")
      ELSE Returned({[row(i) EXCEPT !.question_title = @.s, !.answer = @.s] :
                       i \in 1..Len(qs)})

(***************************************************************************)
(* Transcriber: _require_ffmpeg and transcribe_audio.                      *)
(***************************************************************************)
\* what whisper.load_model / model.transcribe may do
WhisperOutcomes == {"text", "FileNotFoundError_ffmpeg", "FileNotFoundError", "Exception"}

Transcript == <<"spoken", " ", "words">>

transcribe_audio(ffmpeg_found, whisper) ==
  IF ~ffmpeg_found
  THEN Raised("ValueError", "FFmpeg not found. Please install FFmpeg and add it to PATH.")
  ELSE CASE whisper = "text" -> Returned(Transcript)
         [] whisper = "FileNotFoundError_ffmpeg" ->
              Raised("ValueError", "FFmpeg is not installed or not on PATH.")
         [] whisper = "FileNotFoundError" ->
              Raised("FileNotFoundError", "No such file or directory")
         [] OTHER -> Raised("ValueError", "Transcription failed")

(***************************************************************************)
(* Audio Extractor: download_audio.                                        *)
(***************************************************************************)
\* what ydl.extract_info(download=True) may do
DownloadOutcomes == {"file", "no_file", "DownloadError", "ExtractorError"}

download_audio(url, outcome) ==
  LET vid == extract_youtube_id(url)
  IN  IF vid.exc # "none" THEN vid
      ELSE CASE outcome = "file" -> Returned(vid.val)
             [] outcome = "no_file" -> Raised("ValueError", "Audio download failed.")
             [] OTHER -> Raised("ValueError", "Failed to download audio from Youtube.")

(***************************************************************************)
(* Pipeline Orchestrator: create_quiz_from_youtube, one action per         *)
(* external step.                                                          *)
(***************************************************************************)
PipelineUrls ==
  { FormShort \o ElevenAs,
    YOUTUBE_CANONICAL_PREFIX \o ElevenAs,
    FormEmbed \o Body(0, 2, IdLen),
    FormVimeo \o ElevenAs }

PipelineProviders ==
  {ProviderInfo(Some(1)), ProviderInfo(Some(MaxDuration)), ProviderError("DownloadError")}

\* the response texts of the Gemini service, for num_questions = n
PipelineResponses(n) ==
  LET valid == [i \in 1..n |-> ValidEntries[(i % 2) + 1]]
      nums  == Question(W("q"), JList(<<JNum(1), JNum(2), JNum(3), JNum(4)>>), JNum(1))
      untitled == Question(JNull, OptABCD, W("A"))
  IN  { Wrap("fenced_json", Dump(Payload(W("t"), W("d"), JList(valid)), TRUE)),
        Dump(Payload(JNum(7), W("d"), JList([valid EXCEPT ![n] = nums])), FALSE),
        Dump(Payload(W("t"), W("d"), JList([valid EXCEPT ![n] = untitled])), FALSE),
        Dump(Payload(JNull, W("d"), JList(valid)), FALSE),
        Dump(Payload(W("t"), W("d"), JList(SubSeq(valid, 1, n - 1))), FALSE),
        Dump(Payload(W("t"), W("d"), JList([valid EXCEPT ![1] = JNum(5)])), FALSE),
        Wrap("no_braces", <<>>) }

\* generate_quiz_with_gemini's handling of each of these texts (lines 207-220)
ParsedResponses ==
  [text \in PipelineResponses(MaxGenQuestions) |-> ParseResponse(text, MaxGenQuestions)]

NoLocals ==
  [url |-> <<>>, owner |-> 0, num_questions |-> 0, canonical_url |-> <<>>,
   audio_path |-> <<>>, ffmpeg_found |-> FALSE, transcribed |-> NoOutcome,
   quiz_dict |-> JNull, quiz_id |-> 0, before |-> <<{}, {}>>,
   video |-> ProviderInfo(None)]

PipelineInit ==
  /\ arg = <<>>
  /\ res = NoOutcome
  /\ res2 = NoOutcome
  /\ phase = "pipeline"
  /\ llm_calls = 0
  /\ settings \in {[GEMINI_API_KEY |-> k, QUIZ_MAX_DURATION_SEC |-> m] :
                     k \in BOOLEAN, m \in {None, Some(0), Some(2)}}
  /\ quizzes = {}
  /\ questions = {}
  /\ next_id = [quiz |-> 1, question |-> 1]
  /\ files = {}
  /\ pc = [p \in Procs |-> "idle"]
  /\ loc = [p \in Procs |-> NoLocals]
  /\ raised = [p \in Procs |-> NoOutcome]
  /\ steps = [p \in Procs |-> <<>>]
  /\ now = 0
  /\ outstanding = {}
  /\ blacklisted = {}
  /\ revoked = {}
  /\ users = {}

hvars == <<arg, res, res2, phase, now, outstanding, blacklisted, revoked, users>>

\* the exception e leaves create_quiz_from_youtube
Propagate(p, e) ==
  /\ pc' = [pc EXCEPT ![p] = "failed"]
  /\ raised' = [raised EXCEPT ![p] = e]

Goto(p, label) ==
  /\ pc' = [pc EXCEPT ![p] = label]
  /\ raised' = raised

Attempt(p, step) == steps' = [steps EXCEPT ![p] = Append(@, step)]

\* CreateQuizView.post calls create_quiz_from_youtube(url, owner=request.user, ...)
Invoke(p) ==
  /\ pc[p] = "idle"
  /\ \E url \in PipelineUrls :
       loc' = [loc EXCEPT ![p] = [NoLocals EXCEPT !.url = url, !.owner = p,
                                    !.num_questions = MaxGenQuestions,
                                    !.before = <<quizzes, questions>>]]
  /\ Goto(p, "normalize")
  /\ UNCHANGED <<hvars, llm_calls, settings, quizzes, questions, next_id, files, steps>>

\* line 257
StepNormalize(p) ==
  /\ pc[p] = "normalize"
  /\ LET r == NormalizeUrl(loc[p].url)
     IN  IF r.exc # "none"
         THEN Propagate(p, r) /\ loc' = loc
         ELSE Goto(p, "check") /\ loc' = [loc EXCEPT ![p].canonical_url = r.val]
  /\ UNCHANGED <<hvars, llm_calls, settings, quizzes, questions, next_id, files, steps>>

\* line 258; loc[p].video keeps what the provider reported about the video
StepCheck(p) ==
  /\ pc[p] = "check"
  /\ Attempt(p, "check")
  /\ \E provider \in PipelineProviders :
       LET r == ensure_video_available(provider, settings.QUIZ_MAX_DURATION_SEC)
       IN  /\ IF r.exc # "none" THEN Propagate(p, r) ELSE Goto(p, "download")
           /\ loc' = [loc EXCEPT ![p].video = provider]
  /\ UNCHANGED <<hvars, llm_calls, settings, quizzes, questions, next_id, files>>

\* line 259
StepDownload(p) ==
  /\ pc[p] = "download"
  /\ Attempt(p, "download")
  /\ \E outcome \in DownloadOutcomes :
       LET r == download_audio(loc[p].canonical_url, outcome)
       IN  IF r.exc # "none"
           THEN Propagate(p, r) /\ UNCHANGED <<loc, files>>
           ELSE /\ Goto(p, "transcribe")
                /\ files' = files \cup {r.val}
                /\ loc' = [loc EXCEPT ![p].audio_path = r.val]
  /\ UNCHANGED <<hvars, llm_calls, settings, quizzes, questions, next_id>>

\* lines 260-261 and 138: transcribe_audio is entered; _require_ffmpeg
StepTranscribeBegin(p) ==
  /\ pc[p] = "transcribe"
  /\ Attempt(p, "transcribe")
  /\ \E ffmpeg_found \in BOOLEAN :
       IF ffmpeg_found
       THEN /\ Goto(p, "transcribing")
            /\ loc' = [loc EXCEPT ![p].ffmpeg_found = TRUE]
       ELSE /\ Goto(p, "cleanup")
            /\ loc' = [loc EXCEPT ![p].transcribed = transcribe_audio(FALSE, "text")]
  /\ UNCHANGED <<hvars, llm_calls, settings, quizzes, questions, next_id, files>>

\* lines 139-150: whisper runs on the file; without the file it cannot succeed
StepTranscribeEnd(p) ==
  /\ pc[p] = "transcribing"
  /\ \E whisper \in WhisperOutcomes :
       /\ (loc[p].audio_path \notin files) => whisper # "text"
       /\ loc' = [loc EXCEPT ![p].transcribed = transcribe_audio(TRUE, whisper)]
  /\ Goto(p, "cleanup")
  /\ UNCHANGED <<hvars, llm_calls, settings, quizzes, questions, next_id, files, steps>>

\* variant: the exception of unlink is not suppressed, and replaces the
\* exception of the try block
StepCleanup_raising(p) ==
  /\ pc[p] = "cleanup"
  /\ Attempt(p, "unlink")
  /\ \E unlinked \in BOOLEAN :
       /\ files' = IF unlinked THEN files \ {loc[p].audio_path} ELSE files
       /\ IF ~unlinked
          THEN Propagate(p, Raised("PermissionError", "unlink"))
          ELSE IF loc[p].transcribed.exc # "none"
          THEN Propagate(p, loc[p].transcribed)
          ELSE Goto(p, "llm_key")
  /\ UNCHANGED <<hvars, llm_calls, settings, quizzes, questions, next_id, loc>>

\* lines 262-264: finally, unlink(missing_ok=True) with its exceptions
\* suppressed; then the exception of the try block, if any, goes on
StepCleanup(p) ==
  /\ pc[p] = "cleanup"
  /\ Attempt(p, "unlink")
  /\ \E unlinked \in BOOLEAN :
       files' = IF unlinked THEN files \ {loc[p].audio_path} ELSE files
  /\ IF loc[p].transcribed.exc # "none"
     THEN Propagate(p, loc[p].transcribed)
     ELSE Goto(p, "llm_key")
  /\ UNCHANGED <<hvars, llm_calls, settings, quizzes, questions, next_id, loc>>

\* lines 266 and 196-199
StepLlmKey(p) ==
  /\ pc[p] = "llm_key"
  /\ IF ApiKeyMissing(settings.GEMINI_API_KEY)
     THEN Propagate(p, Raised("ValueError", "GEMINI_API_KEY is not configured."))
     ELSE Goto(p, "llm_call")
  /\ UNCHANGED <<hvars, llm_calls, settings, quizzes, questions, next_id, files, loc, steps>>

\* variant: the Quiz row is written before the response is handled
StepLlmCall_persistsFirst(p) ==
  /\ pc[p] = "llm_call"
  /\ Attempt(p, "llm")
  /\ llm_calls' = llm_calls + 1
  /\ quizzes' = quizzes \cup
       {QuizRow(next_id.quiz, loc[p].owner, <<"pending">>, <<>>, loc[p].canonical_url, now)}
  /\ next_id' = [next_id EXCEPT !.quiz = @ + 1]
  /\ \/ Propagate(p, Raised("ValueError", "Gemini request failed")) /\ loc' = loc
     \/ \E text \in PipelineResponses(loc[p].num_questions) :
          LET r == ParsedResponses[text]
          IN  IF r.exc # "none"
              THEN Propagate(p, r) /\ loc' = loc
              ELSE Goto(p, "persist_quiz") /\ loc' = [loc EXCEPT ![p].quiz_dict = r.val]
  /\ UNCHANGED <<hvars, settings, questions, files>>

\* lines 200-220: the request, and the handling of its response
StepLlmCall(p) ==
  /\ pc[p] = "llm_call"
  /\ Attempt(p, "llm")
  /\ llm_calls' = llm_calls + 1
  /\ \/ Propagate(p, Raised("ValueError", "Gemini request failed")) /\ loc' = loc
     \/ \E text \in PipelineResponses(loc[p].num_questions) :
          LET r == ParsedResponses[text]
          IN  IF r.exc # "none"
              THEN Propagate(p, r) /\ loc' = loc
              ELSE Goto(p, "persist_quiz") /\ loc' = [loc EXCEPT ![p].quiz_dict = r.val]
  /\ UNCHANGED <<hvars, settings, quizzes, questions, next_id, files>>

\* lines 269-274: Quiz.objects.create
StepCreateQuiz(p) ==
  /\ pc[p] = "persist_quiz"
  /\ Attempt(p, "quiz_create")
  /\ LET r == NewQuiz(next_id.quiz, loc[p].owner, loc[p].quiz_dict,
                      loc[p].canonical_url, now)
     IN  IF r.exc # "none"
         THEN /\ Propagate(p, r)
              /\ UNCHANGED <<quizzes, next_id, loc>>
         ELSE /\ quizzes' = quizzes \cup {r.val}
              /\ next_id' = [next_id EXCEPT !.quiz = @ + 1]
              /\ loc' = [loc EXCEPT ![p].quiz_id = next_id.quiz]
              /\ Goto(p, "persist_questions")
  /\ UNCHANGED <<hvars, llm_calls, settings, questions, files>>

\* lines 275-284: the Question objects, Question.objects.bulk_create, return quiz
StepBulkCreate(p) ==
  /\ pc[p] = "persist_questions"
  /\ Attempt(p, "bulk_create")
  /\ LET r == NewQuestionRows(next_id.question, loc[p].quiz_id, loc[p].quiz_dict)
     IN  IF r.exc # "none"
         THEN /\ Propagate(p, r)
              /\ UNCHANGED <<questions, next_id>>
         ELSE /\ questions' = questions \cup r.val
              /\ next_id' = [next_id EXCEPT !.question = @ + Cardinality(r.val)]
              /\ Goto(p, "done")
  /\ UNCHANGED <<hvars, llm_calls, settings, quizzes, files, loc>>

Next ==
  \E p \in Procs :
    \/ Invoke(p)
    \/ StepNormalize(p)
    \/ StepCheck(p)
    \/ StepDownload(p)
    \/ StepTranscribeBegin(p)
    \/ StepTranscribeEnd(p)
    \/ StepCleanup(p)
    \/ StepLlmKey(p)
    \/ StepLlmCall(p)
    \/ StepCreateQuiz(p)
    \/ StepBulkCreate(p)

Spec == PipelineInit /\ [][Next]_vars

(***************************************************************************)
(* REST layer: authentication, serializers and views of the quiz API.      *)
(***************************************************************************)
\* the users of the system
NumUsers == 2

Users == 1..NumUsers

\* what a request presents: no credentials, a token that does not validate,
\* or a valid access token of a user
Credentials ==
  {[kind |-> "none", user |-> 0], [kind |-> "invalid", user |-> 0]}
  \cup {[kind |-> "token", user |-> u] : u \in Users}

\* CookieJWTAuthentication.authenticate followed by IsAuthenticated:
\* the user of the request, or 0 when the request is answered 401
Authenticate(credentials) ==
  IF credentials.kind = "token" THEN credentials.user ELSE 0

Response(status, detail, data) == [status |-> status, detail |-> detail, data |-> data]

Unauthorized == Response(401, "Authentication credentials were not provided.", <<>>)

\* QuestionSerializer
SerializeQuestion(q) ==
  [id |-> q.id, question_title |-> q.question_title,
   question_options |-> q.question_options, answer |-> q.answer]

\* QuizSerializer, over the rows qs of Question
SerializeQuiz(z, qs) ==
  LET own == ById({q \in qs : q.quiz = z.id})
  IN  [id |-> z.id, title |-> z.title, description |-> z.description,
       created_at |-> z.created_at, updated_at |-> z.updated_at,
       video_url |-> z.video_url,
       questions |-> [i \in 1..Len(own) |-> SerializeQuestion(own[i])]]

\* variant: the owner of the quiz is not compared with the user
get_object_anyone(user, quiz_id) ==
  IF ~\E z \in quizzes : z.id = quiz_id
  THEN [status |-> 404, detail |-> "Quiz not found.", obj |-> <<>>]
  ELSE [status |-> 200, detail |-> "", obj |-> CHOOSE z \in quizzes : z.id = quiz_id]

\* QuizDetailView.get_object: the quiz, or the status of the exception
get_object(user, quiz_id) ==
  IF ~\E z \in quizzes : z.id = quiz_id
  THEN [status |-> 404, detail |-> "Quiz not found.", obj |-> <<>>]
  ELSE LET obj == CHOOSE z \in quizzes : z.id = quiz_id
       IN  IF obj.owner # user
           THEN [status |-> 403,
                 detail |-> "You do not have permission to access this quiz.",
                 obj |-> <<>>]
           ELSE [status |-> 200, detail |-> "", obj |-> obj]

\* a field of request.data: absent, or given with a text
Missing == [given |-> FALSE, v |-> <<>>]

Given(v) == [given |-> TRUE, v |-> v]

\* serializers.CharField(allow_blank=False): the text is stripped and must
\* not be blank
CharFieldValid(v) == Strip(v) # <<>>

\* serializers.URLField: the URLValidator wants a scheme and a host
SchemePrefixes == {<<"h","t","t","p","s",":","/","/">>, <<"h","t","t","p",":","/","/">>}

UrlFieldValid(v) ==
  \E pre \in SchemePrefixes :
    /\ Len(v) > Len(pre)
    /\ SubSeq(v, 1, Len(pre)) = pre
    /\ v[Len(pre) + 1] \notin {"/", "?", "#", " "}

\* variant: the url is validated, and returned as it was supplied
validate_video_url_raw(value) ==
  LET vid == extract_youtube_id(value)
  IN  IF vid.exc = "ValueError"
      THEN Raised("ValidationError", "Invalid YouTube URL.")
      ELSE Returned(value)

\* validate_video_url of both update serializers
validate_video_url(value) ==
  LET vid == extract_youtube_id(value)
  IN  IF vid.exc = "ValueError"
      THEN Raised("ValidationError", "Invalid YouTube URL.")
      ELSE Returned(YOUTUBE_CANONICAL(vid.val))

\* the validated value of one field, or what makes it invalid
FieldOutcome(name, field, required) ==
  IF ~field.given
  THEN IF required THEN Raised("ValidationError", "This field is required.")
       ELSE Returned(<<>>)
  ELSE IF name = "video_url"
  THEN IF ~UrlFieldValid(Strip(field.v))
       THEN Raised("ValidationError", "Enter a valid URL.")
       ELSE validate_video_url(Strip(field.v))
  ELSE IF ~CharFieldValid(field.v)
  THEN Raised("ValidationError", "This field may not be blank.")
  ELSE Returned(Strip(field.v))

\* variant: a partial update may supply no field at all
is_valid_emptyok(data, partial) ==
  LET out == [n \in {"title", "description", "video_url"} |->
                FieldOutcome(n, data[n], ~partial)]
      attrs == {n \in DOMAIN out : data[n].given}
  IN  IF \E n \in DOMAIN out : out[n].exc # "none"
      THEN [valid |-> FALSE, attrs |-> {}, values |-> out]
      ELSE [valid |-> TRUE, attrs |-> attrs, values |-> out]

\* serializer.is_valid of QuizUpdateSerializer (partial = FALSE) and of
\* QuizPartialUpdateSerializer (partial = TRUE): the validated attrs
is_valid(data, partial) ==
  LET out == [n \in {"title", "description", "video_url"} |->
                FieldOutcome(n, data[n], ~partial)]
      attrs == {n \in DOMAIN out : data[n].given}
  IN  IF \E n \in DOMAIN out : out[n].exc # "none"
      THEN [valid |-> FALSE, attrs |-> {}, values |-> out]
      ELSE IF partial /\ attrs = {}
      THEN [valid |-> FALSE, attrs |-> {}, values |-> out]
      ELSE [valid |-> TRUE, attrs |-> attrs, values |-> out]

\* variant: the fields the request did not supply are blanked
Saved_blanking(obj, v) ==
  [obj EXCEPT
     !.title = IF "title" \in v.attrs THEN v.values["title"].val ELSE <<>>,
     !.description = IF "description" \in v.attrs THEN v.values["description"].val ELSE <<>>,
     !.video_url = IF "video_url" \in v.attrs THEN v.values["video_url"].val ELSE <<>>,
     !.updated_at = now]

\* serializer.save(): the validated attrs are set on the instance, which is
\* saved (updated_at is auto_now)
Saved(obj, v) ==
  [obj EXCEPT
     !.title = IF "title" \in v.attrs THEN v.values["title"].val ELSE @,
     !.description = IF "description" \in v.attrs THEN v.values["description"].val ELSE @,
     !.video_url = IF "video_url" \in v.attrs THEN v.values["video_url"].val ELSE @,
     !.updated_at = now]

(***************************************************************************)
(* The requests of the quiz API, one action per view method.               *)
(***************************************************************************)
\* most requests to POST /api/createQuiz/ that reach the LLM
MaxLlmCalls == 2
\* latest instant of the clock
MaxClock == 1

\* the ids a request may name: those a quiz can have, and one more
QuizIds == 1..(MaxLlmCalls + 1)

\* the response texts of the Gemini service in the runs of the API: a valid
\* quiz, a quiz of numbers, a quiz with one question too few, a quiz with an
\* entry that is no object, and no JSON at all
ApiResponses ==
  {t \in PipelineResponses(MaxGenQuestions) :
     \/ ParsedResponses[t].exc # "none"
     \/ ~IsNull(Item(ParsedResponses[t].val, "title"))
        /\ \A i \in 1..MaxGenQuestions :
             ~IsNull(Item(Item(ParsedResponses[t].val, "questions").items[i],
                          "question_title"))}

\* what the services outside the program do during one run of the pipeline
SmoothRun ==
  [provider |-> ProviderInfo(Some(1)), download |-> "file", ffmpeg_found |-> TRUE,
   whisper |-> "text", unlinked |-> TRUE, llm_fails |-> FALSE,
   text |-> Wrap("no_braces", <<>>)]

RunEnvs ==
  {[SmoothRun EXCEPT !.text = t] : t \in ApiResponses}
  \cup {[SmoothRun EXCEPT !.provider = ProviderError("DownloadError")],
        [SmoothRun EXCEPT !.provider = ProviderInfo(Some(MaxDuration))],
        [SmoothRun EXCEPT !.download = "DownloadError"],
        [SmoothRun EXCEPT !.ffmpeg_found = FALSE],
        [SmoothRun EXCEPT !.whisper = "FileNotFoundError"],
        [SmoothRun EXCEPT !.whisper = "Exception"],
        [SmoothRun EXCEPT !.llm_fails = TRUE]}

\* create_quiz_from_youtube up to line 266, statement by statement: the
\* canonical url and the quiz dict, or the exception; with whether a file was
\* downloaded and whether the LLM was called
RunOutcome(r, file, called) == [outcome |-> r, downloaded |-> file, llm_called |-> called]

\* lines 207-220 and 266
RunParsed(canonical_url, g) ==
  IF g.exc # "none" THEN RunOutcome(g, TRUE, TRUE)
  ELSE RunOutcome(Returned([canonical_url |-> canonical_url, quiz_dict |-> g.val]),
                  TRUE, TRUE)

\* lines 196-205
RunLlm(canonical_url, env) ==
  IF ApiKeyMissing(settings.GEMINI_API_KEY)
  THEN RunOutcome(Raised("ValueError", "GEMINI_API_KEY is not configured."), TRUE, FALSE)
  ELSE IF env.llm_fails
  THEN RunOutcome(Raised("ValueError", "Gemini request failed"), TRUE, TRUE)
  ELSE RunParsed(canonical_url, ParsedResponses[env.text])

\* lines 260-264
RunTranscribed(canonical_url, t, env) ==
  IF t.exc # "none" THEN RunOutcome(t, TRUE, FALSE) ELSE RunLlm(canonical_url, env)

\* line 259
RunDownloaded(canonical_url, d, env) ==
  IF d.exc # "none" THEN RunOutcome(d, FALSE, FALSE)
  ELSE RunTranscribed(canonical_url, transcribe_audio(env.ffmpeg_found, env.whisper), env)

\* line 258
RunChecked(canonical_url, a, env) ==
  IF a.exc # "none" THEN RunOutcome(a, FALSE, FALSE)
  ELSE RunDownloaded(canonical_url, download_audio(canonical_url, env.download), env)

\* line 257
RunNormalized(c, env) ==
  IF c.exc # "none" THEN RunOutcome(c, FALSE, FALSE)
  ELSE RunChecked(c.val,
                  ensure_video_available(env.provider, settings.QUIZ_MAX_DURATION_SEC),
                  env)

RunToPayload(url, env) == RunNormalized(NormalizeUrl(url), env)

\* the response of CreateQuizView.post to an exception of the pipeline
ErrorResponse(e) ==
  IF IsValueError(e.exc) THEN Response(400, e.msg, <<>>)
  ELSE Response(500, "Internal server error.", <<>>)

Request(method, credentials, id, data) ==
  [method |-> method, credentials |-> credentials, id |-> id, data |-> data]

NoData == [title |-> Missing, description |-> Missing, video_url |-> Missing]

ApiInit ==
  /\ arg = Request("", [kind |-> "none", user |-> 0], 0, NoData)
  /\ res = Response(0, "", <<>>)
  /\ res2 = NoOutcome
  /\ phase = "api"
  /\ llm_calls = 0
  /\ settings \in {[GEMINI_API_KEY |-> k, QUIZ_MAX_DURATION_SEC |-> Some(2)] :
                     k \in BOOLEAN}
  /\ quizzes = {}
  /\ questions = {}
  /\ next_id = [quiz |-> 1, question |-> 1]
  /\ files = {}
  /\ pc = <<>>
  /\ loc = <<>>
  /\ raised = <<>>
  /\ steps = <<>>
  /\ now = 0
  /\ outstanding = {}
  /\ blacklisted = {}
  /\ revoked = {}
  /\ users = {}

\* what no request of the quiz API changes
avars == <<phase, settings, pc, loc, raised, steps, outstanding, blacklisted, revoked, users>>

store == <<quizzes, questions, next_id>>

NoRequest == Request("", [kind |-> "none", user |-> 0], 0, NoData)

NoResponse == Response(0, "", <<>>)

\* the server waits for a request: requests are served one after the other
Waiting == phase = "api" /\ arg = NoRequest /\ res = NoResponse

\* the response has been sent
Sent ==
  /\ phase = "api"
  /\ res # NoResponse
  /\ arg' = NoRequest
  /\ res' = NoResponse
  /\ res2' = NoOutcome
  /\ UNCHANGED <<llm_calls, files, store, now, avars>>

\* time passes between requests
Tick ==
  /\ Waiting
  /\ now < MaxClock
  /\ now' = now + 1
  /\ UNCHANGED <<arg, res, res2, llm_calls, files, store, avars>>

\* the urls of the bodies of POST /api/createQuiz/
CreateUrls ==
  {<<>>, <<" ">>, FormShort \o ElevenAs, FormVimeo \o ElevenAs}

\* lines 269-284, and the response of CreateQuizView.post; res2 is what
\* create_quiz_from_youtube returned (the id of the quiz) or raised
RunPersist(owner, payload) ==
  \E z \in {NewQuiz(next_id.quiz, owner, payload.quiz_dict, payload.canonical_url, now)} :
    IF z.exc # "none"
    THEN res2' = z /\ res' = ErrorResponse(z) /\ UNCHANGED store
    ELSE \E qs \in {NewQuestionRows(next_id.question, next_id.quiz, payload.quiz_dict)} :
           /\ quizzes' = quizzes \cup {z.val}
           /\ IF qs.exc # "none"
              THEN /\ res2' = qs
                   /\ res' = ErrorResponse(qs)
                   /\ questions' = questions
                   /\ next_id' = [next_id EXCEPT !.quiz = @ + 1]
              ELSE /\ questions' = questions \cup qs.val
                   /\ next_id' = [quiz |-> next_id.quiz + 1,
                                  question |-> next_id.question + Cardinality(qs.val)]
                   /\ res2' = Returned(<<z.val.id>>)
                   /\ res' = Response(201, "", <<SerializeQuiz(z.val, qs.val)>>)

\* create_quiz_from_youtube(url, owner=request.user, ...) and the response
RunAndRespond(owner, run, unlinked) ==
  /\ llm_calls' = IF run.llm_called THEN llm_calls + 1 ELSE llm_calls
  /\ files' = IF run.downloaded /\ ~unlinked
              THEN files \cup {extract_youtube_id(run.outcome.val.canonical_url).val}
              ELSE files
  /\ IF run.outcome.exc # "none"
     THEN res2' = run.outcome /\ res' = ErrorResponse(run.outcome) /\ UNCHANGED store
     ELSE RunPersist(owner, run.outcome.val)

\* CreateQuizView.post
PostCreateQuiz ==
  /\ Waiting
  /\ llm_calls < MaxLlmCalls
  /\ \E credentials \in Credentials, url \in CreateUrls, env \in RunEnvs :
       /\ arg' = Request("POST", credentials, 0,
                         [NoData EXCEPT !.video_url = Given(url)])
       /\ IF Authenticate(credentials) = 0
          THEN res' = Unauthorized /\ UNCHANGED <<res2, llm_calls, files, store>>
          ELSE IF Strip(url) = <<>>
          THEN /\ res' = Response(400, "Missing 'url'.", <<>>)
               /\ UNCHANGED <<res2, llm_calls, files, store>>
          ELSE \E run \in {RunToPayload(Strip(url), env)} :
                 RunAndRespond(Authenticate(credentials), run, env.unlinked)
  /\ UNCHANGED <<now, avars>>

\* the orders in which order_by('-created_at') may return rows
NewestFirst(rows) ==
  {f \in [1..Cardinality(rows) -> rows] :
     /\ \A i, j \in DOMAIN f : i # j => f[i] # f[j]
     /\ \A i, j \in DOMAIN f : i < j => f[i].created_at >= f[j].created_at}

\* variant: the quizzes are not filtered by their owner
get_queryset_all(user) == quizzes

\* QuizzesListView.get_queryset
get_queryset(user) == {z \in quizzes : z.owner = user}

\* QuizzesListView (GET /api/quizzes/)
GetQuizzes ==
  /\ Waiting
  /\ \E credentials \in Credentials :
       LET user == Authenticate(credentials)
       IN  /\ arg' = Request("LIST", credentials, 0, NoData)
           /\ IF user = 0
              THEN res' = Unauthorized
              ELSE \E order \in NewestFirst(get_queryset(user)) :
                     res' = Response(200, "",
                              [i \in DOMAIN order |-> SerializeQuiz(order[i], questions)])
  /\ UNCHANGED <<res2, llm_calls, files, store, now, avars>>

\* RetrieveUpdateDestroyAPIView.get with QuizDetailView.get_object
GetQuiz ==
  /\ Waiting
  /\ \E credentials \in Credentials, id \in QuizIds :
       LET user == Authenticate(credentials)
           got  == get_object(user, id)
       IN  /\ arg' = Request("GET", credentials, id, NoData)
           /\ res' = IF user = 0 THEN Unauthorized
                     ELSE IF got.status # 200 THEN Response(got.status, got.detail, <<>>)
                     ELSE Response(200, "", <<SerializeQuiz(got.obj, questions)>>)
  /\ UNCHANGED <<res2, llm_calls, files, store, now, avars>>

\* the bodies of PUT and PATCH requests
UrlB == FormEmbed \o Body(0, 2, IdLen)

UpdateBodies ==
  { [title |-> Given(<<"u">>), description |-> Given(<<"e">>), video_url |-> Given(UrlB)],
    [title |-> Given(<<"u">>), description |-> Given(<<"e">>),
     video_url |-> Given(FormVimeo \o ElevenAs)],
    [title |-> Given(<<" ", "u", " ">>), description |-> Missing, video_url |-> Missing],
    [title |-> Missing, description |-> Missing,
     video_url |-> Given(SubSeq(FormShort, 9, Len(FormShort)) \o ElevenAs)],
    [title |-> Given(<<" ">>), description |-> Missing, video_url |-> Missing],
    NoData }

\* QuizDetailView.put (partial = FALSE) and QuizDetailView.patch (partial = TRUE)
Update(method, partial) ==
  /\ Waiting
  /\ \E credentials \in Credentials, id \in QuizIds, data \in UpdateBodies :
       LET user == Authenticate(credentials)
           got  == get_object(user, id)
           v    == is_valid(data, partial)
           new  == Saved(got.obj, v)
       IN  /\ arg' = Request(method, credentials, id, data)
           /\ IF user = 0
              THEN res' = Unauthorized /\ quizzes' = quizzes
              ELSE IF got.status # 200
              THEN res' = Response(got.status, got.detail, <<>>) /\ quizzes' = quizzes
              ELSE IF ~v.valid
              THEN res' = Response(400, "Invalid input.", <<>>) /\ quizzes' = quizzes
              ELSE /\ quizzes' = (quizzes \ {got.obj}) \cup {new}
                   /\ res' = Response(200, "", <<SerializeQuiz(new, questions)>>)
  /\ UNCHANGED <<res2, llm_calls, files, questions, next_id, now, avars>>

PutQuiz == Update("PUT", FALSE)

PatchQuiz == Update("PATCH", TRUE)

\* variant: the deletion does not reach the questions
Cascade_none(quiz_id) == {}

\* on_delete=models.CASCADE of Question.quiz
Cascade(quiz_id) == {q \in questions : q.quiz = quiz_id}

\* QuizDetailView.delete
DeleteQuiz ==
  /\ Waiting
  /\ \E credentials \in Credentials, id \in QuizIds :
       LET user == Authenticate(credentials)
           got  == get_object(user, id)
       IN  /\ arg' = Request("DELETE", credentials, id, NoData)
           /\ IF user = 0
              THEN res' = Unauthorized /\ UNCHANGED <<quizzes, questions>>
              ELSE IF got.status # 200
              THEN /\ res' = Response(got.status, got.detail, <<>>)
                   /\ UNCHANGED <<quizzes, questions>>
              ELSE /\ quizzes' = quizzes \ {got.obj}
                   /\ questions' = questions \ Cascade(id)
                   /\ res' = Response(204, "", <<>>)
  /\ UNCHANGED <<res2, llm_calls, files, next_id, now, avars>>

ApiNext ==
  \/ Tick
  \/ Sent
  \/ PostCreateQuiz
  \/ GetQuizzes
  \/ GetQuiz
  \/ PutQuiz
  \/ PatchQuiz
  \/ DeleteQuiz

SpecApi == ApiInit /\ [][ApiNext]_vars

(***************************************************************************)
(* Cookie-based JWT authentication: login, logout, token refresh.          *)
(***************************************************************************)
\* most refresh tokens the server signs
MaxTokens == 3

\* whether 'rest_framework_simplejwt.token_blacklist' is an installed app:
\* a capability resolved once at startup
BlacklistCapability == BOOLEAN

\* what the cookie 'refresh_token' of a request holds: nothing, a string that
\* is no token of this server, or a refresh token the server has signed
RefreshCookies ==
  {[kind |-> "none", jti |-> 0], [kind |-> "garbage", jti |-> 0]}
  \cup {[kind |-> "refresh", jti |-> t.jti] : t \in outstanding}

\* RefreshToken(token_str): the validated token, or the TokenError of a string
\* that does not verify or (with the blacklist app) of a blacklisted token
RefreshToken(cookie) ==
  IF cookie.kind # "refresh"
  THEN Raised("TokenError", "Token is invalid or expired")
  ELSE IF settings.BLACKLIST_APP /\ cookie.jti \in blacklisted
  THEN Raised("TokenError", "Token is blacklisted")
  ELSE Returned(<<cookie.jti>>)

\* token.blacklist(): the new blacklist; the method exists only with the
\* blacklist app
TokenBlacklist(token) ==
  IF settings.BLACKLIST_APP
  THEN Returned(blacklisted \cup {token.val[1]})
  ELSE Raised("AttributeError", "'RefreshToken' object has no attribute 'blacklist'")

AuthRequest(method, credentials, cookie) ==
  [method |-> method, credentials |-> credentials, refresh_token |-> cookie]

NoAuthRequest ==
  AuthRequest("", [kind |-> "none", user |-> 0], [kind |-> "none", jti |-> 0])

AuthInit ==
  /\ arg = NoAuthRequest
  /\ res = NoResponse
  /\ res2 = NoOutcome
  /\ phase = "auth"
  /\ llm_calls = 0
  /\ settings \in {[BLACKLIST_APP |-> b] : b \in BlacklistCapability}
  /\ quizzes = {}
  /\ questions = {}
  /\ next_id = <<>>
  /\ files = {}
  /\ pc = <<>>
  /\ loc = <<>>
  /\ raised = <<>>
  /\ steps = <<>>
  /\ now = 0
  /\ outstanding = {}
  /\ blacklisted = {}
  /\ revoked = {}
  /\ users = {}

\* the server waits for a request
AuthWaiting == phase = "auth" /\ arg = NoAuthRequest /\ res = NoResponse

\* what no view of the authentication writes
uvars == <<res2, llm_calls, settings, quizzes, questions, next_id, files, pc, loc,
           raised, steps, now, users>>

AuthSent ==
  /\ phase = "auth"
  /\ res # NoResponse
  /\ arg' = NoAuthRequest
  /\ res' = NoResponse
  /\ UNCHANGED <<phase, outstanding, blacklisted, revoked, uvars>>

\* LoginView.post; user 0 stands for credentials authenticate() refuses
Login ==
  /\ AuthWaiting
  /\ Cardinality(outstanding) < MaxTokens
  /\ \E user \in Users \cup {0} :
       /\ arg' = AuthRequest("LOGIN", [kind |-> "none", user |-> 0],
                             [kind |-> "none", jti |-> 0])
       /\ IF user = 0
          THEN /\ res' = Response(401, "Invalid credentials.", <<>>)
               /\ outstanding' = outstanding
          ELSE \E refresh \in {[jti |-> Cardinality(outstanding) + 1, user |-> user]} :
                 /\ outstanding' = outstanding \cup {refresh}
                 /\ res' = Response(200, "Login successfully!",
                                    <<[access_token |-> user,
                                       refresh_token |-> refresh.jti]>>)
  /\ UNCHANGED <<phase, blacklisted, revoked, uvars>>

\* the try block of LogoutView.post: the blacklist after it
Blacklisting(cookie) ==
  IF cookie.kind = "none" THEN blacklisted
  ELSE IF RefreshToken(cookie).exc # "none" THEN blacklisted
  ELSE IF TokenBlacklist(RefreshToken(cookie)).exc # "none" THEN blacklisted
  ELSE TokenBlacklist(RefreshToken(cookie)).val

\* LogoutView.post
Logout ==
  /\ AuthWaiting
  /\ \E credentials \in Credentials, cookie \in RefreshCookies :
       /\ arg' = AuthRequest("LOGOUT", credentials, cookie)
       /\ IF Authenticate(credentials) = 0
          THEN res' = Unauthorized /\ UNCHANGED <<blacklisted, revoked>>
          ELSE /\ blacklisted' = Blacklisting(cookie)
               /\ revoked' = IF cookie.kind = "refresh"
                             THEN revoked \cup {cookie.jti} ELSE revoked
               /\ res' = Response(200, "Log-Out successfully!", <<>>)
  /\ UNCHANGED <<phase, outstanding, uvars>>

\* CookieTokenRefreshView.post
TokenRefresh ==
  /\ AuthWaiting
  /\ \E cookie \in RefreshCookies :
       /\ arg' = AuthRequest("REFRESH", [kind |-> "none", user |-> 0], cookie)
       /\ res' = IF cookie.kind = "none"
                 THEN Response(401, "Missing refresh token.", <<>>)
                 ELSE IF RefreshToken(cookie).exc # "none"
                 THEN Response(401, "Invalid refresh token.", <<>>)
                 ELSE Response(200, "Token refreshed", <<[access |-> cookie.jti]>>)
  /\ UNCHANGED <<phase, outstanding, blacklisted, revoked, uvars>>

AuthNext ==
  \/ AuthSent
  \/ Login
  \/ Logout
  \/ TokenRefresh

SpecAuth == AuthInit /\ [][AuthNext]_vars

(***************************************************************************)
(* Registration: RegisterView.create with RegistrationSerializer, one      *)
(* action per access to the users table.                                   *)
(***************************************************************************)
Usernames == {"ann", "bob"}

Emails == {"a@x.org", "b@x.org"}

Passwords == {"123", "pass12345"}

\* the bodies of POST /api/register/
Registrations ==
  {[username |-> n, email |-> e, password |-> w] :
     n \in Usernames, e \in Emails, w \in Passwords}

NoRegistration == [username |-> "", email |-> "", password |-> ""]

\* UniqueValidator(queryset=User.objects.all()) of username and of email
UsernameTaken(data) == \E u \in users : u.username = data.username

EmailTaken(data) == \E u \in users : u.email = data.email

\* min_length=6 and validate_password
PasswordValid(data) == data.password = "pass12345"

\* serializer.is_valid
RegistrationValid(data) ==
  ~UsernameTaken(data) /\ ~EmailTaken(data) /\ PasswordValid(data)

RegisterInit ==
  /\ arg = <<>>
  /\ res = NoOutcome
  /\ res2 = NoOutcome
  /\ phase = "register"
  /\ llm_calls = 0
  /\ settings = <<>>
  /\ quizzes = {}
  /\ questions = {}
  /\ next_id = <<>>
  /\ files = {}
  /\ pc = [p \in Procs |-> "idle"]
  /\ loc = [p \in Procs |-> NoRegistration]
  /\ raised = [p \in Procs |-> NoResponse]
  /\ steps = <<>>
  /\ now = 0
  /\ outstanding = {}
  /\ blacklisted = {}
  /\ revoked = {}
  /\ users = {}

\* what no step of a registration writes
rvars == <<arg, res, res2, phase, llm_calls, settings, quizzes, questions, next_id,
           files, steps, now, outstanding, blacklisted, revoked>>

\* a request arrives; raised[p] holds the response of the request of p
RegSubmit(p) ==
  /\ phase = "register"
  /\ pc[p] = "idle"
  /\ \E data \in Registrations : loc' = [loc EXCEPT ![p] = data]
  /\ pc' = [pc EXCEPT ![p] = "validate"]
  /\ raised' = [raised EXCEPT ![p] = NoResponse]
  /\ UNCHANGED <<users, rvars>>

\* line 46: serializer.is_valid(raise_exception=True)
RegValidate(p) ==
  /\ pc[p] = "validate"
  /\ IF RegistrationValid(loc[p])
     THEN /\ pc' = [pc EXCEPT ![p] = "create"]
          /\ raised' = raised
     ELSE /\ pc' = [pc EXCEPT ![p] = "idle"]
          /\ raised' = [raised EXCEPT ![p] = Response(400, "Invalid input.", <<>>)]
  /\ UNCHANGED <<loc, users, rvars>>

\* line 47 and RegistrationSerializer.create: User.objects.create_user; the
\* table has a unique index on username, and none on email
RegCreate(p) ==
  /\ pc[p] = "create"
  /\ pc' = [pc EXCEPT ![p] = "idle"]
  /\ IF UsernameTaken(loc[p])
     THEN /\ raised' = [raised EXCEPT ![p] = Response(500, "IntegrityError", <<>>)]
          /\ users' = users
     ELSE /\ users' = users \cup
               {[id |-> Cardinality(users) + 1, username |-> loc[p].username,
                 email |-> loc[p].email]}
          /\ raised' = [raised EXCEPT
               ![p] = Response(201, "User created successfully!", <<>>)]
  /\ UNCHANGED <<loc, rvars>>

RegisterNext ==
  \E p \in Procs :
    \/ RegSubmit(p)
    \/ RegValidate(p)
    \/ RegCreate(p)

SpecRegister == RegisterInit /\ [][RegisterNext]_vars

(***************************************************************************)
(* CookieJWTAuthentication.authenticate, as a function of the request's    *)
(* Authorization header, its access_token cookie and the users table.      *)
(***************************************************************************)
\* access tokens: a string that does not validate, or a valid token of a user
AccessTokens ==
  {[kind |-> "invalid", user |-> 0]} \cup {[kind |-> "valid", user |-> u] : u \in Users}

NoToken == [kind |-> "none", user |-> 0]

\* the Authorization header: absent, of another type than Bearer, Bearer with
\* more or less than one token after it, or Bearer <token>
Headers ==
  {[kind |-> k, token |-> NoToken] : k \in {"absent", "other", "malformed"}}
  \cup {[kind |-> "bearer", token |-> t] : t \in AccessTokens}

\* the cookie 'access_token': absent, the empty string, or a token
Cookies ==
  {[kind |-> k, token |-> NoToken] : k \in {"absent", "empty"}}
  \cup {[kind |-> "token", token |-> t] : t \in AccessTokens}

\* the row of each user the tokens name: active, inactive, or deleted
Accounts == [Users -> {"active", "inactive", "deleted"}]

\* authenticate returned None
NoCredentials == Returned(<<>>)

\* JWTAuthentication.get_validated_token
get_validated_token(raw_token) ==
  IF raw_token.kind = "valid" THEN Returned(<<raw_token.user>>)
  ELSE Raised("InvalidToken", "Given token not valid for any token type")

\* JWTAuthentication.get_user
get_user(validated_token, accounts) ==
  CASE accounts[validated_token.val[1]] = "deleted" ->
         Raised("AuthenticationFailed", "User not found")
    [] accounts[validated_token.val[1]] = "inactive" ->
         Raised("AuthenticationFailed", "User is inactive")
    [] OTHER -> validated_token

\* JWTAuthentication.authenticate, for a header that is present
JWTAuthentication_authenticate(header, accounts) ==
  CASE header.kind = "other" -> NoCredentials
    [] header.kind = "malformed" ->
         Raised("AuthenticationFailed", "Authorization header must contain two space-delimited values")
    [] OTHER ->
         IF get_validated_token(header.token).exc # "none"
         THEN get_validated_token(header.token)
         ELSE get_user(get_validated_token(header.token), accounts)

\* variant: the cookie is read first, the header only without a cookie
authenticate_cookieFirst(header, cookie, accounts) ==
  IF cookie.kind \in {"absent", "empty"}
  THEN IF header.kind = "absent" THEN NoCredentials
       ELSE JWTAuthentication_authenticate(header, accounts)
  ELSE IF get_validated_token(cookie.token).exc # "none"
  THEN Raised("AuthenticationFailed", "Invalid token.")
  ELSE get_user(get_validated_token(cookie.token), accounts)

\* CookieJWTAuthentication.authenticate
authenticate(header, cookie, accounts) ==
  IF header.kind # "absent"
  THEN JWTAuthentication_authenticate(header, accounts)
  ELSE IF cookie.kind \in {"absent", "empty"}
  THEN NoCredentials
  ELSE IF get_validated_token(cookie.token).exc # "none"
  THEN Raised("AuthenticationFailed", "Invalid token.")
  ELSE get_user(get_validated_token(cookie.token), accounts)

\* the request, a second cookie to put in the place of its cookie, the users
CookieInit ==
  /\ arg \in {[header |-> h, cookie |-> c, cookie2 |-> d, accounts |-> a] :
                h \in Headers, c \in Cookies, d \in Cookies, a \in Accounts}
  /\ res = NoOutcome
  /\ res2 = NoOutcome
  /\ phase = "start"
  /\ llm_calls = 0
  /\ PipelineIdle

\* authenticate(request), and authenticate of the request with the other cookie
CookieAuthenticate ==
  /\ phase = "start"
  /\ res' = authenticate(arg.header, arg.cookie, arg.accounts)
  /\ res2' = authenticate(arg.header, arg.cookie2, arg.accounts)
  /\ phase' = "once"
  /\ UNCHANGED <<arg, llm_calls>>
  /\ UNCHANGED pvars

CookieNext == CookieAuthenticate

SpecCookie == CookieInit /\ [][CookieNext]_vars

(***************************************************************************)
(* Claims about the URL Normalizer (checked under SpecNorm).               *)
(***************************************************************************)
AllIdChars(b) == \A k \in 1..Len(b) : b[k] \in IdChars

\* C5: for every 11-character id over [A-Za-z0-9_-], the forms watch?v=<id>,
\* youtu.be/<id> and embed/<id> all normalize to the one canonical URL
\* https://www.youtube.com/watch?v=<id>.
C5_FormsNormalizeAlike ==
  (/\ phase # "start"
   /\ arg.form \in SupportedForms
   /\ arg.suffix = <<>>
   /\ Len(arg.body) = IdLen
   /\ AllIdChars(arg.body))
  => res = Returned(YOUTUBE_CANONICAL_PREFIX \o arg.body)

\* Scenario A: https://youtu.be/AAAAAAAAAAA has been normalized
C5_Witness ==
  /\ phase = "once"
  /\ arg.url = FormShort \o ElevenAs
  /\ res.val = YOUTUBE_CANONICAL_PREFIX \o ElevenAs

\* C6: normalization is idempotent: when an input normalizes to c, normalizing
\* c again succeeds and yields c.
C6_Idempotent ==
  phase = "twice" => (res2.exc = "none" /\ res2.val = res.val)

\* a non-canonical input was normalized twice
C6_Witness ==
  /\ phase = "twice"
  /\ arg.form = FormEmbed
  /\ arg.url # res.val
  /\ res2.val = res.val

\* one of ?v=, &v=, youtu.be/, embed/ followed by IdLen id characters
C7_HasIdPattern(url) ==
  \E i \in 1..Len(url) :
    \E m \in {<<"?", "v", "=">>, <<"&", "v", "=">>, PAT_youtu_be_slash,
              PAT_embed_slash} :
      /\ OccursAt(url, m, i)
      /\ i + Len(m) + IdLen - 1 <= Len(url)
      /\ AllIdChars(SubSeq(url, i + Len(m), i + Len(m) + IdLen - 1))

C7_LacksHostToken(url) ==
  ~Contains(url, TOK_youtube) /\ ~Contains(url, TOK_youtu_be)

\* C7: a string that is empty, or holds neither 'youtube' nor 'youtu.be', or
\* holds no marker followed by 11 id characters, is rejected with ValueError
\* and no id is returned.
C7_InvalidUrlRejected ==
  (/\ phase # "start"
   /\ \/ arg.url = <<>>
      \/ C7_LacksHostToken(arg.url)
      \/ ~C7_HasIdPattern(arg.url))
  => (res.exc = "ValueError" /\ res.val = <<>>)

\* a URL with a well-formed ?v=<id> but no YouTube host token was rejected
C7_Witness ==
  /\ phase = "once"
  /\ arg.form = FormVimeo
  /\ C7_HasIdPattern(arg.url)
  /\ res = Raised("ValueError", "Unsupported URL.")


(***************************************************************************)
(* Claims about the Quiz Validator (checked under SpecVal).                *)
(***************************************************************************)
PairwiseDistinct(vs) == \A i, j \in 1..Len(vs) : i # j => vs[i] # vs[j]

\* an object with question_title, question_options and answer, whose options
\* are a list of 4 pairwise-distinct members of which answer is one
C4_EntryWellFormed(q) ==
  /\ q.t = "dict"
  /\ \A i \in 1..Len(QuestionKeys) : <<QuestionKeys[i]>> \in {q.keys[k] : k \in 1..Len(q.keys)}
  /\ LET opts == Item(q, "question_options")
     IN  /\ opts.t = "list"
         /\ Len(opts.items) = 4
         /\ PairwiseDistinct(opts.items)
         /\ \E i \in 1..4 : opts.items[i] = Item(q, "answer")

C4_WellFormed(d, n) ==
  /\ d.t = "dict"
  /\ \A k \in {"title", "description", "questions"} :
       <<k>> \in {d.keys[i] : i \in 1..Len(d.keys)}
  /\ LET qs == Item(d, "questions")
     IN  /\ qs.t = "list"
         /\ Len(qs.items) = n
         /\ \A i \in 1..Len(qs.items) : C4_EntryWellFormed(qs.items[i])

\* C4: validate_quiz_dict accepts a payload if and only if it is an object with
\* title, description and questions, questions is a list of exactly
\* num_questions entries, and every entry has the three keys, 4
\* pairwise-distinct options and an answer among them; every other payload is
\* rejected with ValueError (SchemaViolation).
C4_AcceptsIffWellFormed ==
  phase = "once" =>
    IF C4_WellFormed(arg.d, arg.n) THEN res.exc = "none" ELSE res.exc = "ValueError"


(***************************************************************************)
(* Claims about the Quiz Generator (checked under SpecGen).                *)
(***************************************************************************)
\* C9: without the Gemini credential generate_quiz_with_gemini raises
\* ValueError (LlmNotConfigured) and has sent no request to the service.
C9_NoCallWithoutKey ==
  ~arg.api_key =>
    /\ llm_calls = 0
    /\ (phase = "once" => res = Raised("ValueError", "GEMINI_API_KEY is not configured."))

\* the generator has returned for a configuration without a key
C9_Witness ==
  /\ phase = "once"
  /\ ~arg.api_key
  /\ res.exc = "ValueError"
  /\ llm_calls = 0

\* the JSON text of the input parses, on its own, to a quiz valid for n
C10_ValidQuizJson ==
  /\ json_loads(arg.json).exc = "none"
  /\ validate_quiz_dict(json_loads(arg.json).val, arg.n).exc = "none"

C10_Parsed ==
  /\ phase = "once"
  /\ arg.api_key
  /\ ~arg.llm_fails
  /\ arg.wrapper \in TagFenced

\* C10 as stated: every valid quiz JSON wrapped in a pair of fence markers with
\* a leading json tag line is parsed successfully and yields the data of the
\* unwrapped JSON.
C10_FencedJsonParsed ==
  (C10_Parsed /\ C10_ValidQuizJson)
  => (res.exc = "none" /\ res.val = json_loads(arg.json).val)

\* C10 as amended: the same, for JSON text that holds no fence marker and no
\* line boundary other than a line feed.
C10_FencedJsonParsed_NoFenceInside ==
  (/\ C10_Parsed
   /\ C10_ValidQuizJson
   /\ ~Contains(arg.json, Fence)
   /\ \A i \in 1..Len(arg.json) : arg.json[i] # LS)
  => (res.exc = "none" /\ res.val = json_loads(arg.json).val)

\* a fenced, tagged, multi-line quiz JSON has been parsed to its payload
C10_Witness ==
  /\ phase = "once"
  /\ arg.wrapper = "prose_fenced_json"
  /\ \E i \in 1..Len(arg.json) : arg.json[i] = "\n"
  /\ res.exc = "none"
  /\ res.val = arg.payload


(***************************************************************************)
(* Claims about the Availability Checker (checked under SpecAvail).        *)
(***************************************************************************)
\* C8: for a video the provider reports, ensure_video_available raises
\* ValueError (DurationExceeded) whenever a maximum-duration policy is set and
\* the reported duration is strictly greater than it, for every policy value;
\* otherwise it returns the provider metadata.
C8_DurationPolicyEnforced ==
  (phase = "once" /\ arg.provider.error = "none") =>
    IF /\ arg.max_duration_sec.some
       /\ arg.provider.duration.some
       /\ arg.provider.duration.v > arg.max_duration_sec.v
    THEN res = Raised("ValueError", "Video too long.")
    ELSE res.exc = "none" /\ res.val = arg.provider

(***************************************************************************)
(* Claims about the Pipeline Orchestrator.                                 *)
(***************************************************************************)
Attempted(p, step) == \E i \in 1..Len(steps[p]) : steps[p][i] = step

Exited(p) == pc[p] \in {"done", "failed"}

\* the rows that appeared since invocation p began and are its owner's
NewQuizzes(p) == {z \in quizzes \ loc[p].before[1] : z.owner = loc[p].owner}

NewQuestions(p) ==
  {q \in questions \ loc[p].before[2] :
     \A z \in quizzes : z.id = q.quiz => z.owner = loc[p].owner}

\* C1: after an invocation of create_quiz_from_youtube has exited, whatever
\* step failed, the store holds either no new Quiz of that invocation, or one
\* new Quiz together with all num_questions of its Questions; a Quiz with a
\* missing or partial question set is never left in the store.
C1_QuizWithAllQuestionsOrNone ==
  \A p \in Procs :
    Exited(p) =>
      \/ NewQuizzes(p) = {}
      \/ /\ Cardinality(NewQuizzes(p)) = 1
         /\ \A z \in NewQuizzes(p) :
              Cardinality(QuestionsOf(z.id)) = loc[p].num_questions

\* C2: when an invocation fails in a step before persistence (the Quiz create
\* was never attempted), the stored Quizzes and Questions are what they were
\* before the invocation: it has added no row and no earlier row is gone.
C2_FailureBeforePersistWritesNothing ==
  \A p \in Procs :
    (pc[p] = "failed" /\ ~Attempted(p, "quiz_create")) =>
      /\ NewQuizzes(p) = {}
      /\ NewQuestions(p) = {}
      /\ loc[p].before[1] \subseteq quizzes
      /\ loc[p].before[2] \subseteq questions

\* an invocation failed on the response of the LLM while another invocation
\* has stored its quiz
C2_Witness ==
  \E p \in Procs :
    /\ pc[p] = "failed"
    /\ Attempted(p, "llm")
    /\ ~Attempted(p, "quiz_create")
    /\ raised[p] = Raised("ValueError", "Quiz must contain exactly 2 questions.")
    /\ quizzes # {}
    /\ questions # {}

\* C3: in a single invocation, once download_audio has returned a path, the
\* file at that path is absent when the invocation exits, whether
\* transcription succeeded or raised; and when transcription raises, its
\* typed error (a ValueError) is what leaves the pipeline.
C3_ScratchFileGoneAndErrorTyped ==
  \A p \in Procs :
    ( /\ \A o \in Procs \ {p} : pc[o] = "idle"
      /\ Exited(p)
      /\ loc[p].audio_path # <<>> ) =>
      /\ loc[p].audio_path \notin files
      /\ loc[p].transcribed.exc # "none" =>
           (raised[p] = loc[p].transcribed /\ IsValueError(raised[p].exc))

\* C11: round trip: when create_quiz_from_youtube has persisted a payload that
\* passed the validator, the Questions retrieved for the created Quiz match
\* the payload's questions in count, order and content (question_title,
\* question_options, answer), and the Quiz's title and description equal the
\* payload's.
C11_RoundTrip ==
  \A p \in Procs :
    pc[p] = "done" =>
      LET payload == loc[p].quiz_dict
          wanted  == Item(payload, "questions").items
          got     == RetrievedQuestions(loc[p].quiz_id)
      IN  /\ \E z \in quizzes :
                /\ z.id = loc[p].quiz_id
                /\ JStr(z.title) = Item(payload, "title")
                /\ JStr(z.description) = Item(payload, "description")
          /\ Len(got) = Len(wanted)
          /\ \A i \in 1..Len(got) :
                /\ JStr(got[i].question_title) = Item(wanted[i], "question_title")
                /\ got[i].question_options = Item(wanted[i], "question_options")
                /\ JStr(got[i].answer) = Item(wanted[i], "answer")

(***************************************************************************)
(* Claims about the quiz API.                                              *)
(***************************************************************************)
\* the fields of the body of the request
Supplied(request) == {n \in DOMAIN request.data : request.data[n].given}

\* a step that answers a PUT or a PATCH with 200
UpdateSucceeds == arg'.method \in {"PUT", "PATCH"} /\ res'.status = 200

\* a successful update leaves the Questions and the other quizzes as they
\* were, and of the quiz itself changes at most the fields named by the
\* request and those of `also`
UpdateTouchesOnly(also) ==
  UpdateSucceeds =>
    /\ questions' = questions
    /\ {z \in quizzes' : z.id # arg'.id} = {z \in quizzes : z.id # arg'.id}
    /\ \E old \in quizzes, new \in quizzes' :
         /\ old.id = arg'.id
         /\ new.id = arg'.id
         /\ \A f \in DOMAIN old :
              \/ new[f] = old[f]
              \/ f \in also
              \/ f \in IF arg'.method = "PUT"
                       THEN {"title", "description", "video_url"}
                       ELSE Supplied(arg')

\* C12 (as stated): a successful PUT or PATCH on /api/quizzes/<id>/ changes
\* only the quiz's title, description and video_url (PATCH: only the fields
\* supplied); the quiz's Questions and all other quizzes are unchanged.
C12_UpdateChangesOnlyMetadata == [][UpdateTouchesOnly({})]_vars

\* C12 (amended): as above, except that the quiz's updated_at is set to the
\* time of the update.
C12_UpdateChangesOnlyMetadataAndUpdatedAt == [][UpdateTouchesOnly({"updated_at"})]_vars

\* a PATCH of the title alone, answered 200, of a quiz that has questions,
\* made after its creation, while another quiz is stored
C12_Witness ==
  /\ arg.method = "PATCH"
  /\ res.status = 200
  /\ Supplied(arg) = {"title"}
  /\ \E z \in quizzes :
       /\ z.id = arg.id
       /\ z.title = <<"u">>
       /\ z.description # <<>>
       /\ z.updated_at > z.created_at
       /\ QuestionsOf(z.id) # {}
  /\ \E o \in quizzes : o.id # arg.id

\* every stored Question references a stored Quiz
NoOrphanQuestion == \A q \in questions : \E z \in quizzes : z.id = q.quiz

\* a DELETE by the owner of a stored quiz is answered 204 and removes that
\* quiz and its Questions, and nothing else
OwnerDeleteRemovesQuiz ==
  \A z \in quizzes :
    ( /\ arg'.method = "DELETE"
      /\ arg'.id = z.id
      /\ Authenticate(arg'.credentials) = z.owner ) =>
      /\ res'.status = 204
      /\ quizzes' = quizzes \ {z}
      /\ questions' = {q \in questions : q.quiz # z.id}

\* C13: after any sequence of quiz creations, metadata updates and deletions,
\* every stored Question references a Quiz that exists in the store; a
\* successful owner DELETE of a quiz returns 204 and removes the quiz and all
\* of its Questions, and no other quiz's rows.
C13_NoOrphanAndCascade == []NoOrphanQuestion /\ [][OwnerDeleteRemovesQuiz]_vars

\* a quiz with questions has just been deleted, and another quiz with its
\* questions is still stored
C13_Witness ==
  /\ arg.method = "DELETE"
  /\ res.status = 204
  /\ next_id.question > MaxGenQuestions + 1
  /\ Cardinality(questions) = MaxGenQuestions
  /\ Cardinality(quizzes) = 1

\* a step that answers a request on /api/quizzes/<id>/
DetailRequest == arg'.method \in {"GET", "PUT", "PATCH", "DELETE"}

StoreUnchanged == quizzes' = quizzes /\ questions' = questions

\* the three refusals of a request on /api/quizzes/<id>/
DetailRefusals ==
  DetailRequest =>
    /\ arg'.credentials.kind # "token" =>
         (res'.status = 401 /\ StoreUnchanged)
    /\ ( /\ arg'.credentials.kind = "token"
         /\ ~\E z \in quizzes : z.id = arg'.id ) =>
         (res'.status = 404 /\ StoreUnchanged)
    /\ ( /\ arg'.credentials.kind = "token"
         /\ \E z \in quizzes : z.id = arg'.id /\ z.owner # arg'.credentials.user ) =>
         (res'.status = 403 /\ StoreUnchanged)

\* C14: for GET, PUT, PATCH and DELETE on /api/quizzes/<id>/, an
\* unauthenticated request gets 401, an authenticated request for an id that
\* is not stored gets 404, an authenticated request by a user who is not the
\* quiz's owner gets 403, and in all three cases the stored Quiz and its
\* Questions are unchanged.
C14_DetailRefusals == [][DetailRefusals]_vars

\* a user has asked to delete another user's quiz, with valid credentials,
\* and got 403; the quiz and its questions are stored
C14_Witness ==
  /\ arg.method = "DELETE"
  /\ res.status = 403
  /\ arg.credentials.kind = "token"
  /\ \E z \in quizzes :
       /\ z.id = arg.id
       /\ z.owner # arg.credentials.user
       /\ QuestionsOf(z.id) # {}

\* https://www.youtube.com/watch?v=<id> with an id of 11 id characters
IsCanonicalUrl(url) ==
  /\ Len(url) = Len(YOUTUBE_CANONICAL_PREFIX) + IdLen
  /\ SubSeq(url, 1, Len(YOUTUBE_CANONICAL_PREFIX)) = YOUTUBE_CANONICAL_PREFIX
  /\ \A i \in (Len(YOUTUBE_CANONICAL_PREFIX) + 1)..Len(url) : url[i] \in IdChars

\* C15: after any sequence of pipeline creations and successful PUT/PATCH
\* updates through the API, every stored Quiz's video_url has the canonical
\* form https://www.youtube.com/watch?v=<id> with an 11-character id,
\* whatever supported URL form the client supplied.
C15_StoredUrlCanonical == \A z \in quizzes : IsCanonicalUrl(z.video_url)

\* a quiz created from a youtu.be url, and a quiz updated with an embed url
C15_Witness ==
  /\ arg.method \in {"PUT", "PATCH"}
  /\ res.status = 200
  /\ arg.data.video_url = Given(UrlB)
  /\ \E z \in quizzes :
       z.id = arg.id /\ z.video_url = YOUTUBE_CANONICAL(Body(0, 2, IdLen))
  /\ \E z \in quizzes :
       z.id # arg.id /\ z.video_url = YOUTUBE_CANONICAL(ElevenAs)

\* the request comes from the owner of the quiz it names
ByOwner(request) ==
  \E z \in quizzes :
    z.id = request.id /\ z.owner = Authenticate(request.credentials)

\* the body carries a video_url from which no YouTube id can be extracted
InvalidYouTubeUrl(data) ==
  /\ data.video_url.given
  /\ extract_youtube_id(Strip(data.video_url.v)).exc = "ValueError"

OmitsAField(data) ==
  \E n \in {"title", "description", "video_url"} : ~data[n].given

\* the bodies a PUT, and a PATCH, must refuse
Refusable(request) ==
  \/ request.method = "PUT"
     /\ (OmitsAField(request.data) \/ InvalidYouTubeUrl(request.data))
  \/ request.method = "PATCH"
     /\ (request.data = NoData \/ InvalidYouTubeUrl(request.data))

UpdateRefused ==
  (ByOwner(arg') /\ Refusable(arg')) =>
    /\ res'.status = 400
    /\ quizzes' = quizzes

\* C16: an owner's PUT that omits any of title, description, video_url or
\* carries an invalid YouTube URL, and an owner's PATCH whose body is empty or
\* carries an invalid YouTube URL, returns 400 and leaves the stored quiz's
\* title, description and video_url unchanged.
C16_InvalidUpdateRefused == [][UpdateRefused]_vars

\* the owner's empty PATCH was answered 400
C16_Witness ==
  /\ arg.method = "PATCH"
  /\ arg.data = NoData
  /\ ByOwner(arg)
  /\ res.status = 400

\* an authenticated POST /api/createQuiz/ is handled in this step
CreateRequest ==
  /\ arg'.method = "POST"
  /\ Authenticate(arg'.credentials) # 0

\* the invocation failed in one of the six steps before persistence
\* (normalize, check, download, transcribe, generate, validate): one of the
\* ten expected failures, whatever the type of the exception
ExpectedFailure(e) ==
  e.exc \in {"ValueError", "JSONDecodeError", "FileNotFoundError", "TypeError"}

\* the same, for the exceptions that are ValueErrors
TypedFailure(e) == IsValueError(e.exc)

\* the quiz the response of a successful creation must show
CreatedQuiz ==
  \E z \in quizzes' \ quizzes :
    /\ z.owner = Authenticate(arg'.credentials)
    /\ res2'.val = <<z.id>>
    /\ res'.data = <<SerializeQuiz(z, questions')>>
    /\ Len(res'.data[1].questions) = MaxGenQuestions

CreateResponses(Expected(_)) ==
  CreateRequest =>
    /\ Strip(arg'.data.video_url.v) = <<>> =>
         /\ res'.status = 400
         /\ res2' = NoOutcome
         /\ UNCHANGED <<llm_calls, files, store>>
    /\ Strip(arg'.data.video_url.v) # <<>> => res2' # NoOutcome
    /\ Expected(res2') => res'.status = 400 /\ res'.detail = res2'.msg
    /\ (res2'.exc \notin {"unset", "none"} /\ ~Expected(res2')) => res'.status = 500
    /\ res2'.exc = "none" => res'.status = 201 /\ CreatedQuiz

\* C17: POST /api/createQuiz/: a missing or blank url returns 400 without
\* invoking the pipeline; every expected failure of the pipeline (any of the
\* ten typed errors) returns 400 carrying its message; any other exception
\* returns 500; success returns 201 with the created quiz and its nested
\* questions.
C17_CreateResponses == [][CreateResponses(ExpectedFailure)]_vars

\* the same with the expected failures restricted to those that leave the
\* pipeline as a ValueError
C17_CreateResponsesOfValueErrors == [][CreateResponses(TypedFailure)]_vars

\* a transcription failure that was answered 500
C17_Untyped500 ==
  /\ arg.method = "POST"
  /\ res2.exc \in {"FileNotFoundError", "TypeError"}
  /\ res.status = 500

\* POST /api/token/refresh/ is handled in this step, and presents a refresh
\* token that a logout answered 200 has carried before
RefreshAfterLogout ==
  /\ arg'.method = "REFRESH"
  /\ arg'.refresh_token.kind = "refresh"
  /\ arg'.refresh_token.jti \in revoked

RefreshRefused == res'.status = 401 /\ res'.data = <<>>

\* C18: after POST /api/logout/ succeeds for a request carrying a
\* refresh_token cookie, that refresh token is invalid: every later POST
\* /api/token/refresh/ presenting the same refresh token returns 401 and
\* issues no access token.
C18_LogoutInvalidatesRefresh == [][RefreshAfterLogout => RefreshRefused]_vars

\* the same where the blacklist app is installed
C18_WithBlacklistApp ==
  [][(settings.BLACKLIST_APP /\ RefreshAfterLogout) => RefreshRefused]_vars

\* a refresh token presented after its logout, and answered with an access token
C18_RefreshAfterLogout ==
  /\ arg.method = "REFRESH"
  /\ res.status = 200
  /\ arg.refresh_token.jti \in revoked

\* the quizzes of a user in the store
OwnedBy(user) == {z \in quizzes : z.owner = user}

\* the response to GET /api/quizzes/ handled in this step
ListedCorrectly ==
  arg'.method = "LIST" =>
    IF Authenticate(arg'.credentials) = 0
    THEN res'.status = 401 /\ res'.data = <<>>
    ELSE /\ res'.status = 200
         /\ Len(res'.data) = Cardinality(OwnedBy(Authenticate(arg'.credentials)))
         /\ \A z \in OwnedBy(Authenticate(arg'.credentials)) :
              \E i \in DOMAIN res'.data : res'.data[i].id = z.id
         /\ \A i \in DOMAIN res'.data :
              \E z \in OwnedBy(Authenticate(arg'.credentials)) :
                /\ res'.data[i].id = z.id
                /\ res'.data[i].title = z.title
                /\ res'.data[i].description = z.description
                /\ res'.data[i].video_url = z.video_url
                /\ {q.id : q \in {res'.data[i].questions[k] :
                                    k \in DOMAIN res'.data[i].questions}}
                     = {q.id : q \in QuestionsOf(z.id)}
                /\ \A k \in DOMAIN res'.data[i].questions :
                     \E q \in QuestionsOf(z.id) :
                       res'.data[i].questions[k] = SerializeQuestion(q)
         /\ \A i, j \in DOMAIN res'.data :
              i < j => res'.data[i].created_at >= res'.data[j].created_at
         /\ UNCHANGED store

\* C19: GET /api/quizzes/ returns, for an authenticated user, exactly the
\* quizzes whose owner is that user (never another user's quiz), each with
\* its nested questions, newest first; an unauthenticated request gets 401.
C19_ListOwnQuizzesNewestFirst == [][ListedCorrectly]_vars

\* a user is listed their own quiz while the store holds another user's too
C19_Witness ==
  /\ arg.method = "LIST"
  /\ res.status = 200
  /\ Len(res.data) = 1
  /\ Len(res.data[1].questions) = MaxGenQuestions
  /\ \E z \in quizzes : z.owner # Authenticate(arg.credentials)

\* the row has 4 pairwise-distinct options, and its answer is one of them
RowWellFormed(q) ==
  /\ OptionsOk(q.question_options)
  /\ InList(JStr(q.answer), q.question_options.items)

\* C20: every Question in the store, after any sequence of pipeline
\* creations, metadata updates and deletions, has an option list of exactly 4
\* pairwise-distinct members and an answer that is one of those members.
C20_StoredQuestionsWellFormed == \A q \in questions : RowWellFormed(q)

\* the same for the rows whose options are all strings
C20_StoredStringQuestionsWellFormed ==
  \A q \in questions :
    (q.question_options.t = "list"
       /\ \A i \in 1..Len(q.question_options.items) :
            q.question_options.items[i].t = "str")
    => RowWellFormed(q)

\* whisper is running for invocation p on its downloaded file
Transcribing(p) == pc[p] = "transcribing"

\* C21: across any interleaving of concurrent create_quiz_from_youtube
\* invocations, including invocations for the same video id, two
\* transcriptions are never in progress at the same time on the same scratch
\* file path.
C21_OneTranscriptionPerScratchFile ==
  \A p, q \in Procs :
    (p # q /\ Transcribing(p) /\ Transcribing(q))
      => loc[p].audio_path # loc[q].audio_path

\* the first three cases of authenticate
HeaderAloneDecides ==
  /\ arg.header.kind # "absent" => res = res2
  /\ (arg.header.kind = "absent" /\ arg.cookie.kind = "absent") => res = NoCredentials
  /\ (arg.header.kind = "absent" /\ arg.cookie.kind = "token"
        /\ arg.cookie.token.kind = "invalid") => res.exc = "AuthenticationFailed"

ValidCookieAlone ==
  /\ arg.header.kind = "absent"
  /\ arg.cookie.kind = "token"
  /\ arg.cookie.token.kind = "valid"

\* C22: CookieJWTAuthentication.authenticate: when an Authorization header is
\* present the result is decided by the header alone (the access_token cookie
\* is ignored, even if valid); when no header is present and there is no
\* access_token cookie it returns None; when no header is present and the
\* cookie holds an invalid token it raises AuthenticationFailed; when the
\* cookie holds a valid token it returns that token's user.
C22_Authenticate ==
  phase = "once" =>
    /\ HeaderAloneDecides
    /\ ValidCookieAlone => res = Returned(<<arg.cookie.token.user>>)

\* C22 as amended: the same, where a valid token in the cookie returns its
\* user only when that user exists and is active; for a user that is deleted
\* or inactive authenticate raises AuthenticationFailed.
C22_AuthenticateActiveUser ==
  phase = "once" =>
    /\ HeaderAloneDecides
    /\ (ValidCookieAlone /\ arg.accounts[arg.cookie.token.user] = "active")
         => res = Returned(<<arg.cookie.token.user>>)
    /\ (ValidCookieAlone /\ arg.accounts[arg.cookie.token.user] # "active")
         => res.exc = "AuthenticationFailed"

\* a header of another type decided, and the valid cookie of an active user
\* was ignored
C22_Witness ==
  /\ phase = "once"
  /\ arg.header.kind = "other"
  /\ arg.cookie.kind = "token"
  /\ arg.cookie.token.kind = "valid"
  /\ arg.accounts[arg.cookie.token.user] = "active"
  /\ res = NoCredentials

UniqueUsers ==
  \A u, v \in users :
    u.id # v.id => (u.username # v.username /\ u.email # v.email)

\* the request of p is answered in this step, and its username or its email
\* is that of a stored user
DuplicateAnswered(p) ==
  /\ pc[p] # "idle"
  /\ pc'[p] = "idle"
  /\ (UsernameTaken(loc[p]) \/ EmailTaken(loc[p]))

DuplicateRefused ==
  \A p \in Procs :
    DuplicateAnswered(p) => (raised'[p].status = 400 /\ users' = users)

\* C23: after any interleaving of POST /api/register/ requests, including two
\* concurrent requests with the same username or the same email, no two
\* stored users share a username and no two share an email; a request that
\* duplicates an existing username or email gets 400 and creates no user.
C23_UniqueUsersAndDuplicatesRefused == []UniqueUsers /\ [][DuplicateRefused]_vars

\* the uniqueness of usernames and emails alone
C23_UniqueUsers == UniqueUsers

\* the uniqueness of the usernames alone
C23_UniqueUsernames ==
  \A u, v \in users : u.id # v.id => u.username # v.username

\* the number of id characters s starts with
RECURSIVE LeadingIdChars(_)
LeadingIdChars(s) ==
  IF s = <<>> \/ s[1] \notin IdChars THEN 0
  ELSE 1 + LeadingIdChars(Tail(s))

\* the id segment of the input: what follows its v=, youtu.be/ or embed/
IdSegmentLen == LeadingIdChars(arg.body \o arg.suffix)

\* C24: extract_youtube_id accepts a URL only when the id that follows v=,
\* youtu.be/ or embed/ is exactly 11 characters from [A-Za-z0-9_-]; a URL
\* whose id segment is longer than 11 such characters is not accepted as if
\* it carried its first 11 characters.
C24_IdOfExactlyElevenCharacters ==
  (phase # "start" /\ res.exc = "none") => IdSegmentLen = IdLen

\* the same for id segments of at most 11 characters
C24_NoShorterIdAccepted ==
  (phase # "start" /\ res.exc = "none" /\ IdSegmentLen <= IdLen)
    => IdSegmentLen = IdLen

\* a url with an id segment of 12 characters, accepted with the first 11
C24_TwelveAccepted ==
  /\ phase = "once"
  /\ arg.form = FormShort
  /\ IdSegmentLen = IdLen + 1
  /\ res = Returned(YOUTUBE_CANONICAL_PREFIX \o SubSeq(arg.body, 1, IdLen))

\* transcribe_audio has returned or raised in invocation p
Transcribed(p) == pc[p] = "cleanup"

MediaDecoderMissing ==
  Raised("ValueError", "FFmpeg not found. Please install FFmpeg and add it to PATH.")

\* C25: transcribe_audio fails with MediaDecoderMissing when no decoder is
\* resolvable after the fallback attempt, and every other failure raised
\* while loading the model or transcribing (whatever its exception type,
\* including a missing-file error that does not mention the decoder)
\* surfaces as TranscriptionFailed, a ValueError; no other error kind escapes
\* transcribe_audio.
C25_OnlyValueErrorsEscape ==
  \A p \in Procs :
    Transcribed(p) =>
      /\ ~loc[p].ffmpeg_found => loc[p].transcribed = MediaDecoderMissing
      /\ loc[p].transcribed.exc \in {"none", "ValueError"}

\* the first half alone: without a decoder, MediaDecoderMissing
C25_DecoderMissing ==
  \A p \in Procs :
    (Transcribed(p) /\ ~loc[p].ffmpeg_found) => loc[p].transcribed = MediaDecoderMissing

\* a FileNotFoundError has left transcribe_audio
C25_FileNotFoundEscapes ==
  \E p \in Procs :
    Transcribed(p) /\ loc[p].transcribed.exc = "FileNotFoundError"

\* validate_quiz_dict accepted the payload, or refused it with a ValueError
AcceptedOrSchemaViolation == phase = "once" => res.exc \in {"none", "ValueError"}

\* C26: for every parsed JSON value (including a questions entry that is not
\* an object, and an option list with members that are nested lists or
\* objects), validate_quiz_dict either accepts or fails with SchemaViolation
\* (ValueError); it never fails with any other error kind, and it does not
\* modify the payload.
C26_OnlySchemaViolation == []AcceptedOrSchemaViolation /\ [][arg'.d = arg.d]_vars

\* the same for payloads whose entries are objects with hashable options
C26_DictEntriesOnly ==
  (phase = "once" /\ res.exc \notin {"none", "ValueError"}) =>
    \E i \in 1..Len(Item(arg.d, "questions").items) :
      LET q == Item(arg.d, "questions").items[i]
      IN  \/ q.t # "dict"
          \/ \E k \in 1..Len(Item(q, "question_options").items) :
               Unhashable(Item(q, "question_options").items[k])

\* a payload with an entry that is a number made validate_quiz_dict raise
\* TypeError
C26_TypeErrorEscapes ==
  /\ phase = "once"
  /\ res.exc = "TypeError"

\* the positions of a character in a text
PositionsOf(s, c) == {i \in 1..Len(s) : s[i] = c}

\* the substring of s from its first '{' to its last '}', for s that holds both
BetweenBraces(s) ==
  SubSeq(s, Least(PositionsOf(s, "{")), Greatest(PositionsOf(s, "}")))

\* json.loads of a text, then validate_quiz_dict of the data
LoadedAndValidated(text, n) ==
  IF json_loads(text).exc # "none" THEN json_loads(text)
  ELSE IF validate_quiz_dict(json_loads(text).val, n).exc # "none"
  THEN validate_quiz_dict(json_loads(text).val, n)
  ELSE json_loads(text)

\* the response text has been handled; u is the text after the fence unwrapping
ResponseHandled(u) ==
  /\ (~StartsWithBrace(u) /\ PositionsOf(u, "{") # {} /\ PositionsOf(u, "}") # {})
       => res = LoadedAndValidated(BetweenBraces(u), arg.n)
  /\ StartsWithBrace(u) => res = LoadedAndValidated(u, arg.n)
  /\ (~StartsWithBrace(u) /\ (PositionsOf(u, "{") = {} \/ PositionsOf(u, "}") = {}))
       => res = Raised("JSONDecodeError", "Expecting value")
  /\ json_loads(BraceSlice(u)).exc # "none"
       => (IsValueError(res.exc) /\ res.val = <<>>)

\* C27: in generate_quiz_with_gemini, when the (fence-unwrapped) response
\* text does not start with '{', the substring from the first '{' to the last
\* '}' is what gets parsed; and whenever the resulting text is not valid JSON
\* (including text with no braces, or text with a single unmatched fence
\* marker), the call fails with InvalidLlmOutput (a ValueError) and returns
\* no data.
C27_BraceSliceParsedOrInvalidOutput ==
  (phase = "once" /\ llm_calls = 1 /\ ~arg.llm_fails)
    => ResponseHandled(UnwrapFence(Strip(arg.text)))

\* a quiz JSON between two pieces of prose was parsed to its payload
C27_Witness ==
  /\ phase = "once"
  /\ arg.wrapper = "prose"
  /\ res.exc = "none"
  /\ res.val = arg.payload

\* the deletion of the scratch file failed in this step of invocation p:
\* the file is still there after the finally block
DeletionFailed(p) ==
  /\ pc[p] = "cleanup"
  /\ pc'[p] # "cleanup"
  /\ loc[p].audio_path \in files'

\* what follows the finally block is decided by the transcription alone
OutcomeOfTranscription(p) ==
  IF loc[p].transcribed.exc = "none"
  THEN /\ pc'[p] = "llm_key"
       /\ loc'[p].transcribed = Returned(Transcript)
       /\ raised'[p] = NoOutcome
  ELSE /\ pc'[p] = "failed"
       /\ raised'[p] = loc[p].transcribed

DeletionFailureIgnored ==
  \A p \in Procs : DeletionFailed(p) => OutcomeOfTranscription(p)

\* C28: a failure to delete the scratch file never changes the outcome of
\* create_quiz_from_youtube: if transcription succeeded the pipeline
\* continues to the LLM step with the transcript, and if transcription
\* raised, the transcription error (not the deletion error) is what
\* propagates.
C28_DeletionFailureIgnored == [][DeletionFailureIgnored]_vars

\* an invocation whose transcription raised and whose file could not be
\* deleted: the transcription error has propagated
C28_Witness ==
  \E p \in Procs :
    /\ pc[p] = "failed"
    /\ loc[p].audio_path \in files
    /\ \A q \in Procs \ {p} : pc[q] = "idle"
    /\ raised[p] = Raised("ValueError", "Transcription failed")

\* the external steps of create_quiz_from_youtube, in the order of its lines
StepOrder ==
  <<"check", "download", "transcribe", "unlink", "llm", "quiz_create", "bulk_create">>

IsPrefix(s, t) == Len(s) <= Len(t) /\ \A i \in 1..Len(s) : s[i] = t[i]

\* what invocation p holds once the step has succeeded; the deletion of the
\* scratch file completes whether or not the file was removed (C28)
Succeeded(p, step) ==
  CASE step = "check" ->
         ensure_video_available(loc[p].video, settings.QUIZ_MAX_DURATION_SEC).exc = "none"
    [] step = "download" -> loc[p].audio_path # <<>>
    [] step = "transcribe" -> loc[p].transcribed.exc = "none"
    [] step = "llm" -> loc[p].quiz_dict # JNull
    [] step = "quiz_create" -> loc[p].quiz_id # 0
    [] OTHER -> TRUE

\* the steps attempted so far are an initial part of the fixed order, so none
\* is attempted twice, and each came after the success of all before it,
\* except that the deletion comes after the transcription attempt as such
StepsInOrder(p) ==
  /\ IsPrefix(steps[p], StepOrder)
  /\ \A i \in 1..Len(steps[p]) : \A j \in 1..(i - 1) :
       (steps[p][i] = "unlink" /\ steps[p][j] = "transcribe") \/ Succeeded(p, steps[p][j])

\* once the try block of the transcription is left, the deletion was attempted
UnlinkFollowsTranscription(p) ==
  (Attempted(p, "transcribe") /\ pc[p] \notin {"transcribing", "cleanup"}) =>
    Attempted(p, "unlink")

\* the video of invocation p is unavailable, or longer than the policy allows
VideoRefusable(p) ==
  \/ loc[p].video.error # "none"
  \/ /\ settings.QUIZ_MAX_DURATION_SEC.some
     /\ loc[p].video.duration.some
     /\ loc[p].video.duration.v > settings.QUIZ_MAX_DURATION_SEC.v

NoDownloadOfRefusableVideo(p) == Attempted(p, "download") => ~VideoRefusable(p)

\* C29: within one invocation of create_quiz_from_youtube the external steps
\* occur in the fixed order availability check, download, transcription,
\* scratch-file deletion, LLM call, Quiz create, Question bulk-create; each is
\* attempted at most once; a step is attempted only if every earlier step
\* succeeded, except the deletion, which follows every transcription attempt;
\* no download is attempted for a video that is unavailable or exceeds the
\* duration policy.
C29_StepsInFixedOrder ==
  \A p \in Procs :
    /\ StepsInOrder(p)
    /\ UnlinkFollowsTranscription(p)
    /\ NoDownloadOfRefusableVideo(p)

\* the same, for every duration policy but 0 (see C8)
C29_WithPositivePolicy ==
  settings.QUIZ_MAX_DURATION_SEC # Some(0) => C29_StepsInFixedOrder

\* the order and the deletion hold for every policy
C29_OrderOnly ==
  \A p \in Procs : StepsInOrder(p) /\ UnlinkFollowsTranscription(p)

\* all seven steps were attempted by one invocation, and another invocation
\* stopped after a failed transcription and its deletion
C29_AllSteps ==
  \E p, q \in Procs :
    /\ steps[p] = StepOrder
    /\ pc[q] = "failed"
    /\ steps[q] = SubSeq(StepOrder, 1, 4)

\* the download of a video longer than the policy of 0 seconds was attempted
C29_DownloadDespitePolicy ==
  \E p \in Procs :
    /\ settings.QUIZ_MAX_DURATION_SEC = Some(0)
    /\ loc[p].video.duration.some
    /\ loc[p].video.duration.v > 0
    /\ Attempted(p, "download")

\* the Question rows of quiz quiz_id after the step
QuestionsOfNext(quiz_id) == {q \in questions' : q.quiz = quiz_id}

\* a POST /api/createQuiz/ answered with 201 has stored one new quiz, the one
\* of the response, with as many Questions as the view asks for (views.py:54:
\* num_questions=10, MaxGenQuestions in this model)
CreatedWithAllQuestions ==
  (arg'.method = "POST" /\ res'.status = 201) =>
    \E z \in quizzes' \ quizzes :
      /\ quizzes' = quizzes \cup {z}
      /\ res'.data[1].id = z.id
      /\ Len(res'.data[1].questions) = MaxGenQuestions
      /\ Cardinality(QuestionsOfNext(z.id)) = MaxGenQuestions
      /\ QuestionsOf(z.id) = {}

\* a stored quiz keeps its Question rows, each with its content, in every
\* step that does not remove the quiz; and only a DELETE of that quiz,
\* answered with 204, removes it
QuestionsKept ==
  \A z \in quizzes :
    IF \E y \in quizzes' : y.id = z.id
    THEN QuestionsOfNext(z.id) = QuestionsOf(z.id)
    ELSE arg'.method = "DELETE" /\ arg'.id = z.id /\ res'.status = 204

\* C30: every quiz created through POST /api/createQuiz/ has exactly 10
\* Questions when the request returns 201, and keeps exactly those 10
\* Questions through any later sequence of GET, PUT and PATCH requests until
\* the quiz is deleted.
C30_TenQuestionsKept == [][CreatedWithAllQuestions /\ QuestionsKept]_vars

\* a quiz that was created after another one was deleted has been read and
\* updated, and the update is answered: the quiz has all its Questions
C30_Witness ==
  /\ arg.method \in {"PUT", "PATCH"}
  /\ res.status = 200
  /\ next_id.quiz > 2
  /\ Cardinality(quizzes) = 1
  /\ \E z \in quizzes :
       /\ z.id = arg.id
       /\ z.updated_at > z.created_at
       /\ Cardinality(QuestionsOf(z.id)) = MaxGenQuestions

====
